---- MODULE Spec2Model ----
(***************************************************************************)
(* State-machine model of the static_collections crate.                    *)
(*                                                                         *)
(* Part 1: the open-addressing tables, HashMap (src/src/hash_map.rs) and   *)
(* HashSet (src/src/hash_set.rs), with the hashers of src/src/hasher.rs    *)
(* and the all-keys-collide hasher the crate's tests use.                  *)
(* Part 2: SearchableList (src/src/searchable_list.rs), the sorted backing *)
(* array with stable handles, beside a plain LIFO stack as reference.      *)
(* Part 3: Stack, Queue, List and PriorityQueue (src/src/stack.rs,         *)
(* queue.rs, list.rs, priority_queue.rs), and the calls of the tables'     *)
(* test_collisions.                                                        *)
(* Part 4: the calls of SearchableList's test_pop, and DefaultHasher        *)
(* (src/src/hasher.rs) on its own, its accumulator at a reduced width.     *)
(*                                                                         *)
(* Every method is an operator from the receiver (a record of the struct's *)
(* fields) and the arguments to the receiver afterwards and the returned   *)
(* value.  An action calls the method of the same name on the objects of   *)
(* the specification and records the call, its result and the receiver as  *)
(* it was before the call.                                                 *)
(***************************************************************************)
EXTENDS Integers, Sequences, FiniteSets, TLC

\* ------------------------------------------------------------- bounds
\* Largest table size N (the const generic); every N in 0..MaxN is explored.
MaxN == 2
\* Keys are the u32 values 1..MaxKey.
MaxKey == 3
\* Seeds of BuildDefaultHasher<SEED> are 0..MaxSeed.
MaxSeed == 1
\* Largest SearchableList size N; every N in 0..MaxListN is explored.
MaxListN == 4
\* Elements of a SearchableList (T) are the u32 values 0..MaxElem.
MaxElem == 2
\* Largest Stack, Queue, List and PriorityQueue size N; 0..MaxCollN is explored.
MaxCollN == 3
\* Largest table size N under test_collisions (the test itself uses 50).
MaxTestN == 5
\* The width in bits of the hasher's u64 accumulator as explored here: the
\* arithmetic is modulo 2^WidthBits, narrow enough for wrapping_add to wrap.
WidthBits == 3
\* Bytes fed to a hasher are the u8 values 0..MaxByte.
MaxByte == 2
\* Longest slice given to one Hasher::write call.
MaxWriteLen == 2
\* Most bytes fed to one hasher over all its write calls.
MaxFed == 4

Keys == 1 .. MaxKey
\* The values stored in a map (V); two values tell a kept value from a new one.
Vals == {"a", "b"}
Elems == 0 .. MaxElem
\* The byte values, and the slices a write call is given.
Bytes == 0 .. MaxByte
Slices == UNION {[1 .. n -> Bytes] : n \in 0 .. MaxWriteLen}

VARIABLES
    N,             \* const generic N: the length of the backing arrays
    map,           \* HashMap { build_hasher, entries, len }
    set,           \* HashSet { hasher, arr, len }, driven by the same calls
    twin,          \* a second HashMap of the same N, built with any hasher
    ref,           \* the reference bounded map: a function from its keys to values
    call,          \* the last call: op, key, val, what map returned, what set returned
    shadow,        \* what twin and ref returned for the last call
    pre,           \* map and set as they were before the last call
    inserts_only,  \* no remove has been called since construction
    panicked,      \* a panic!() was reached: the program has aborted
    slist,         \* SearchableList { backing, indices, len }
    lifo,          \* a plain LIFO stack given the same push and pop calls
    scall,         \* the last call on slist: op, elem, index, ret, panic message
    spre,          \* slist and lifo as they were before the last call
    which,         \* the container the program uses: Stack, Queue, List or PriorityQueue
    stack,         \* Stack { arr, len }
    queue,         \* Queue { arr, index, len }
    list,          \* List { arr, len }
    pqueue,        \* PriorityQueue { arr, len }
    held,          \* the elements the container holds, oldest first
    ccall,         \* the last call on the container: op, elem, index, ret, panic message
    cpre,          \* the four containers and held as they were before the last call
    pc,            \* the next call of the test being run; 0 when no test is run
    builder,       \* BuildDefaultHasher<SEED>
    default_hasher, \* DefaultHasher { val }, built by builder
    fed,           \* how many times each byte value has been written to it
    hcall          \* the last call on default_hasher: op and what it returned

table_vars == <<map, set, twin, ref, call, shadow, pre, inserts_only, pc>>
slist_vars == <<slist, lifo, scall, spre>>
coll_vars == <<which, stack, queue, list, pqueue, held, ccall, cpre>>
hasher_vars == <<builder, default_hasher, fed, hcall>>
vars == <<N, table_vars, panicked, slist_vars, coll_vars, hasher_vars>>

\* ------------------------------------------------------------ Option<T>
\* Option<T> as a sequence of at most one element.
None == <<>>
Some(x) == <<x>>
is_some(o) == o # None

\* A returned value, by its Rust type: a bool, an Option or a usize (the
\* fields of the other types are held at a fixed filler).
ret_bool(b) == [bool |-> b, option |-> None, usize |-> 0]
ret_option(o) == [bool |-> FALSE, option |-> o, usize |-> 0]
ret_usize(n) == [bool |-> FALSE, option |-> None, usize |-> n]
no_ret == ret_option(None)

\* The outcome of a probe that reached panic!(): no slot index is negative.
Panic == <<-1>>

\* -------------------------------------------------------------- hashers
\* u32::to_ne_bytes on a little-endian target, as fed to Hasher::write by
\* <u32 as Hash>::hash.
to_ne_bytes(k) ==
    << k % 256, (k \div 256) % 256, (k \div 65536) % 256, (k \div 16777216) % 256 >>

RECURSIVE sum(_)
sum(bytes) ==
    IF bytes = <<>> THEN 0 ELSE Head(bytes) + sum(Tail(bytes))

\* The number of values of the accumulator: 2^64 for u64, 2^WidthBits here.
Modulus == 2 ^ WidthBits

\* Mutant of wrapping_add: the addition saturates at the largest value.
saturating_add(a, b) == IF a + b >= Modulus THEN Modulus - 1 ELSE a + b

\* u64::wrapping_add.  The tables' seeds (up to MaxSeed) and keys (four bytes
\* each) give sums below the modulus, so the addition wraps for the hasher's
\* own calls only.
wrapping_add(a, b) == (a + b) % Modulus

BuildDefaultHasher(SEED) == [kind |-> "Default", SEED |-> SEED]
IntCollBuildHasher == [kind |-> "IntColl", SEED |-> 0]

BuildHashers == {IntCollBuildHasher} \cup {BuildDefaultHasher(s) : s \in 0 .. MaxSeed}

\* BuildHasher::build_hasher: a fresh hasher state.
build_hasher(bh) ==
    IF bh.kind = "Default" THEN [kind |-> "Default", val |-> bh.SEED]
    ELSE [kind |-> "IntColl", val |-> 0]

\* Hasher::write
write(hasher, bytes) ==
    IF hasher.kind = "Default"
    THEN [hasher EXCEPT !.val = wrapping_add(hasher.val, sum(bytes))]
    ELSE hasher

\* Hasher::finish
finish(hasher) ==
    IF hasher.kind = "Default" THEN hasher.val ELSE 0

\* ------------------------------------------------------------- HashMap
Empty == <<"Empty">>
Deleted == <<"Deleted">>
Occupied(k, v) == <<"Occupied", k, v>>

\* Mutant of take: the slot is left Empty (mem::take with Empty as the default).
take_leaves_empty(entry) == [self |-> Empty, ret |-> entry]

\* HashMapEntry::take: mem::replace(self, Deleted)
take(entry) == [self |-> Deleted, ret |-> entry]

\* From<HashMapEntry<K, V>> for Option<V>
into_option(entry) ==
    IF entry[1] = "Occupied" THEN Some(entry[3]) ELSE None

\* HashMap::new_with_hasher
new_with_hasher(hasher) ==
    [build_hasher |-> hasher, entries |-> [i \in 0 .. N - 1 |-> Empty], len |-> 0]

\* HashMap::hash_key
hash_key(self, key) ==
    finish(write(build_hasher(self.build_hasher), to_ne_bytes(key)))

\* Mutant of available_loop: no probing, an occupied home slot ends the search.
available_loop_no_probing(self, key, spot, original_spot) ==
    IF self.entries[spot][1] \in {"Empty", "Deleted"} THEN Some(spot) ELSE None

RECURSIVE available_loop(_, _, _, _)
\* Mutant of available_loop: only an Empty slot is taken, a Deleted one is
\* passed over.
available_loop_skips_deleted(self, key, spot, original_spot) ==
    LET entry == self.entries[spot]
        next == (spot + 1) % N
    IN  IF entry[1] = "Empty" THEN Some(spot)
        ELSE IF entry[1] = "Occupied" /\ entry[2] = key THEN None
        ELSE IF next = original_spot THEN Panic
        ELSE available_loop(self, key, next, original_spot)

\* Mutant of available_loop: the wrap test comes before the look at the slot.
available_loop_wraps_early(self, key, spot, original_spot) ==
    LET entry == self.entries[spot]
        next == (spot + 1) % N
    IN  IF next = original_spot THEN Panic
        ELSE IF entry[1] \in {"Empty", "Deleted"} THEN Some(spot)
        ELSE IF entry[2] = key THEN None
        ELSE available_loop(self, key, next, original_spot)

available_loop(self, key, spot, original_spot) ==
    LET entry == self.entries[spot]
        next == (spot + 1) % N
    IN  IF entry[1] \in {"Empty", "Deleted"} THEN Some(spot)
        ELSE IF entry[2] = key THEN None
        ELSE IF next = original_spot THEN Panic
        ELSE available_loop(self, key, next, original_spot)

\* Mutant of probe_for_available_spot: the probe starts at slot 0, not at the
\* key's home slot.
probe_for_available_spot_from_zero(self, key) ==
    IF self.len >= N THEN None
    ELSE available_loop(self, key, 0, 0)

\* HashMap::probe_for_available_spot
probe_for_available_spot(self, key) ==
    IF self.len >= N THEN None
    ELSE LET spot == hash_key(self, key) % N
         IN  available_loop(self, key, spot, spot)

RECURSIVE existing_loop(_, _, _, _)
\* Mutant of existing_loop: a Deleted slot ends the search like an Empty one.
existing_loop_stops_at_deleted(self, key, spot, original_spot) ==
    LET entry == self.entries[spot]
        next == (spot + 1) % N
    IN  IF entry[1] \in {"Empty", "Deleted"} THEN None
        ELSE IF entry[2] = key THEN Some(spot)
        ELSE IF next = original_spot THEN None
        ELSE existing_loop(self, key, next, original_spot)

existing_loop(self, key, spot, original_spot) ==
    LET entry == self.entries[spot]
        next == (spot + 1) % N
    IN  IF entry[1] = "Empty" THEN None
        ELSE IF entry[1] = "Occupied" /\ entry[2] = key THEN Some(spot)
        ELSE IF next = original_spot THEN None
        ELSE existing_loop(self, key, next, original_spot)

\* Mutant of probe_for_existing_spot_traced: no early return on len = 0, the
\* key is hashed first (a table without slots finds nothing).
probe_for_existing_spot_always_hashes(self, key) ==
    [hashed |-> TRUE,
     spot |-> IF N = 0 THEN None
              ELSE LET spot == hash_key(self, key) % N
                   IN  existing_loop(self, key, spot, spot)]

\* HashMap::probe_for_existing_spot, with a record of whether hash_key ran.
probe_for_existing_spot_traced(self, key) ==
    IF self.len = 0 THEN [hashed |-> FALSE, spot |-> None]
    ELSE [hashed |-> TRUE,
          spot |-> LET spot == hash_key(self, key) % N
                   IN  existing_loop(self, key, spot, spot)]

\* HashMap::probe_for_existing_spot
probe_for_existing_spot(self, key) == probe_for_existing_spot_traced(self, key).spot

\* The slots the loop of probe_for_available_spot looks at, in order.
RECURSIVE available_loop_examined(_, _, _, _)
available_loop_examined(self, key, spot, original_spot) ==
    LET entry == self.entries[spot]
        next == (spot + 1) % N
    IN  IF entry[1] \in {"Empty", "Deleted"} THEN <<spot>>
        ELSE IF entry[2] = key THEN <<spot>>
        ELSE IF next = original_spot THEN <<spot>>
        ELSE <<spot>> \o available_loop_examined(self, key, next, original_spot)

\* The slots probe_for_available_spot looks at, in order.
probe_for_available_spot_examined(self, key) ==
    IF self.len >= N THEN << >>
    ELSE LET spot == hash_key(self, key) % N
         IN  available_loop_examined(self, key, spot, spot)

\* The slots the loop of probe_for_existing_spot looks at, in order.
RECURSIVE existing_loop_examined(_, _, _, _)
\* Mutant of existing_loop_examined: the wrap is noticed one slot late, the
\* start slot is looked at a second time.
existing_loop_examined_past_wrap(self, key, spot, original_spot) ==
    LET entry == self.entries[spot]
        next == (spot + 1) % N
    IN  IF entry[1] = "Empty" THEN <<spot>>
        ELSE IF entry[1] = "Occupied" /\ entry[2] = key THEN <<spot>>
        ELSE IF next = original_spot THEN <<spot, next>>
        ELSE <<spot>> \o existing_loop_examined(self, key, next, original_spot)

existing_loop_examined(self, key, spot, original_spot) ==
    LET entry == self.entries[spot]
        next == (spot + 1) % N
    IN  IF entry[1] = "Empty" THEN <<spot>>
        ELSE IF entry[1] = "Occupied" /\ entry[2] = key THEN <<spot>>
        ELSE IF next = original_spot THEN <<spot>>
        ELSE <<spot>> \o existing_loop_examined(self, key, next, original_spot)

\* The slots probe_for_existing_spot looks at, in order.
probe_for_existing_spot_examined(self, key) ==
    IF self.len = 0 THEN << >>
    ELSE LET spot == hash_key(self, key) % N
         IN  existing_loop_examined(self, key, spot, spot)

\* Mutant of insert: the slot is written and len is not incremented.
insert_forgets_len(self, key, val) ==
    LET found == probe_for_available_spot(self, key)
    IN  IF found = Panic THEN [self |-> self, ret |-> FALSE, panic |-> TRUE]
        ELSE IF is_some(found)
        THEN [self |-> [self EXCEPT !.entries[found[1]] = Occupied(key, val)],
              ret |-> TRUE, panic |-> FALSE]
        ELSE [self |-> self, ret |-> FALSE, panic |-> FALSE]

\* Mutant of insert: a refused insert below capacity (the key is there already)
\* reports success.
insert_accepts_duplicate(self, key, val) ==
    LET found == probe_for_available_spot(self, key)
    IN  IF found = Panic THEN [self |-> self, ret |-> FALSE, panic |-> TRUE]
        ELSE IF is_some(found)
        THEN [self |-> [self EXCEPT !.entries[found[1]] = Occupied(key, val),
                                    !.len = self.len + 1],
              ret |-> TRUE, panic |-> FALSE]
        ELSE [self |-> self, ret |-> self.len < N, panic |-> FALSE]

\* HashMap::insert
insert(self, key, val) ==
    LET found == probe_for_available_spot(self, key)
    IN  IF found = Panic THEN [self |-> self, ret |-> FALSE, panic |-> TRUE]
        ELSE IF is_some(found)
        THEN [self |-> [self EXCEPT !.entries[found[1]] = Occupied(key, val),
                                    !.len = self.len + 1],
              ret |-> TRUE, panic |-> FALSE]
        ELSE [self |-> self, ret |-> FALSE, panic |-> FALSE]

\* HashMap::len
len(self) == self.len

\* Mutant of remove: the slot is taken and len is not decremented.
remove_forgets_len(self, key) ==
    LET found == probe_for_existing_spot(self, key)
    IN  IF found = None THEN [self |-> self, ret |-> None]
        ELSE LET taken == take(self.entries[found[1]])
             IN  [self |-> [self EXCEPT !.entries[found[1]] = taken.self],
                  ret |-> into_option(taken.ret)]

\* Mutant of remove: the slot of the removed key is reset to Empty.
remove_clears_slot(self, key) ==
    LET found == probe_for_existing_spot(self, key)
    IN  IF found = None THEN [self |-> self, ret |-> None]
        ELSE [self |-> [self EXCEPT !.entries[found[1]] = Empty,
                                    !.len = self.len - 1],
              ret |-> into_option(self.entries[found[1]])]

\* HashMap::remove
remove(self, key) ==
    LET found == probe_for_existing_spot(self, key)
    IN  IF found = None THEN [self |-> self, ret |-> None]
        ELSE LET taken == take(self.entries[found[1]])
             IN  [self |-> [self EXCEPT !.entries[found[1]] = taken.self,
                                        !.len = self.len - 1],
                  ret |-> into_option(taken.ret)]

\* HashMap::contains_key
contains_key(self, key) == is_some(probe_for_existing_spot(self, key))

\* Mutant of get: only the key's home slot is looked at, no probing.
get_home_slot_only(self, key) ==
    IF self.len = 0 THEN None
    ELSE LET entry == self.entries[hash_key(self, key) % N]
         IN  IF entry[1] = "Occupied" /\ entry[2] = key THEN Some(entry[3]) ELSE None

\* HashMap::get
get(self, key) ==
    LET found == probe_for_existing_spot(self, key)
    IN  IF found = None THEN None ELSE into_option(self.entries[found[1]])

\* ------------------------------------------------------------- HashSet
\* HashSetEntry: Occupied(T) | Empty | Deleted (Empty and Deleted as above).
HashSet_Occupied(elem) == <<"Occupied", elem>>

\* HashSetEntry::take: mem::replace(self, Deleted)
HashSet_take(entry) == [self |-> Deleted, ret |-> entry]

\* From<HashSetEntry<T>> for Option<T>
HashSet_into_option(entry) ==
    IF entry[1] = "Occupied" THEN Some(entry[2]) ELSE None

\* HashSet::new_with_hasher
HashSet_new_with_hasher(hasher) ==
    [hasher |-> hasher, arr |-> [i \in 0 .. N - 1 |-> Empty], len |-> 0]

\* HashSet::hash_element
hash_element(self, elem) ==
    finish(write(build_hasher(self.hasher), to_ne_bytes(elem)))

RECURSIVE HashSet_available_loop(_, _, _, _)
HashSet_available_loop(self, elem, spot, original_spot) ==
    LET entry == self.arr[spot]
        next == (spot + 1) % N
    IN  IF entry[1] \in {"Empty", "Deleted"} THEN Some(spot)
        ELSE IF entry[2] = elem THEN None
        ELSE IF next = original_spot THEN Panic
        ELSE HashSet_available_loop(self, elem, next, original_spot)

\* HashSet::probe_for_available_spot
HashSet_probe_for_available_spot(self, elem) ==
    IF self.len >= N THEN None
    ELSE LET spot == hash_element(self, elem) % N
         IN  HashSet_available_loop(self, elem, spot, spot)

RECURSIVE HashSet_existing_loop(_, _, _, _)
HashSet_existing_loop(self, elem, spot, original_spot) ==
    LET entry == self.arr[spot]
        next == (spot + 1) % N
    IN  IF entry[1] = "Empty" THEN None
        ELSE IF entry[1] = "Occupied" /\ entry[2] = elem THEN Some(spot)
        ELSE IF next = original_spot THEN None
        ELSE HashSet_existing_loop(self, elem, next, original_spot)

\* HashSet::probe_for_existing_spot, with a record of whether hash_element ran.
HashSet_probe_for_existing_spot_traced(self, elem) ==
    IF self.len = 0 THEN [hashed |-> FALSE, spot |-> None]
    ELSE [hashed |-> TRUE,
          spot |-> LET spot == hash_element(self, elem) % N
                   IN  HashSet_existing_loop(self, elem, spot, spot)]

\* HashSet::probe_for_existing_spot
HashSet_probe_for_existing_spot(self, elem) ==
    HashSet_probe_for_existing_spot_traced(self, elem).spot

\* HashSet::insert
HashSet_insert(self, elem) ==
    LET found == HashSet_probe_for_available_spot(self, elem)
    IN  IF found = Panic THEN [self |-> self, ret |-> FALSE, panic |-> TRUE]
        ELSE IF is_some(found)
        THEN [self |-> [self EXCEPT !.arr[found[1]] = HashSet_Occupied(elem),
                                    !.len = self.len + 1],
              ret |-> TRUE, panic |-> FALSE]
        ELSE [self |-> self, ret |-> FALSE, panic |-> FALSE]

\* HashSet::len
HashSet_len(self) == self.len

\* HashSet::remove, had it left the slot Empty where HashMap::remove leaves it
\* Deleted.
HashSet_remove_clears_slot(self, elem) ==
    LET found == HashSet_probe_for_existing_spot(self, elem)
    IN  IF found = None THEN [self |-> self, ret |-> None]
        ELSE [self |-> [self EXCEPT !.arr[found[1]] = Empty,
                                    !.len = self.len - 1],
              ret |-> HashSet_into_option(self.arr[found[1]])]

\* HashSet::remove
HashSet_remove(self, elem) ==
    LET found == HashSet_probe_for_existing_spot(self, elem)
    IN  IF found = None THEN [self |-> self, ret |-> None]
        ELSE LET taken == HashSet_take(self.arr[found[1]])
             IN  [self |-> [self EXCEPT !.arr[found[1]] = taken.self,
                                        !.len = self.len - 1],
                  ret |-> HashSet_into_option(taken.ret)]

\* HashSet::contains
contains(self, elem) == is_some(HashSet_probe_for_existing_spot(self, elem))

\* HashSet::get
HashSet_get(self, elem) ==
    LET found == HashSet_probe_for_existing_spot(self, elem)
    IN  IF found = None THEN None ELSE HashSet_into_option(self.arr[found[1]])

\* ------------------------------------------------------- SearchableList
\* A panic is carried as its message; NoPanic is normal completion.
NoPanic == ""
\* An array indexed outside 0 .. N - 1.
OutOfBounds == "index out of bounds"
\* A usize subtraction below 0 (overflow checks on).
SubtractOverflow == "attempt to subtract with overflow"

\* Mutant of cmp: the order of the elements reversed.
cmp_reversed(a, b) == IF a > b THEN "Less" ELSE IF a = b THEN "Equal" ELSE "Greater"

\* Ord::cmp on the elements.
cmp(a, b) == IF a < b THEN "Less" ELSE IF a = b THEN "Equal" ELSE "Greater"

\* SearchableList::new
SearchableList_new ==
    [backing |-> [j \in 0 .. N - 1 |-> None],
     indices |-> [i \in 0 .. N - 1 |-> None],
     len |-> 0]

\* SearchableList::max_len
SearchableList_max_len(self) == N

\* SearchableList::len
SearchableList_len(self) == self.len

\* SearchableList::search_for_new_spot
RECURSIVE search_for_new_spot(_, _, _, _)
\* Mutant of search_for_new_spot: an element Equal to the new one sends the
\* search to the first half, so the new element lands before its equals.
search_for_new_spot_before_equals(self, elem, start_j, end_j) ==
    LET diff == end_j - start_j
        midpoint == start_j + (diff \div 2)
    IN  IF diff = 0 THEN [ret |-> 0, panic |-> NoPanic]
        ELSE IF diff = 1
        THEN IF cmp(self.backing[start_j][1][2], elem) = "Less"
             THEN [ret |-> end_j, panic |-> NoPanic]
             ELSE [ret |-> start_j, panic |-> NoPanic]
        ELSE IF cmp(self.backing[midpoint][1][2], elem) = "Less"
        THEN search_for_new_spot(self, elem, midpoint, end_j)
        ELSE search_for_new_spot(self, elem, start_j, midpoint)

\* Mutant of search_for_new_spot: the second half starts after the midpoint.
search_for_new_spot_skips_midpoint(self, elem, start_j, end_j) ==
    LET diff == end_j - start_j
        midpoint == start_j + (diff \div 2)
    IN  IF diff = 0
        THEN IF self.len # 0
             THEN [ret |-> 0, panic |-> "Unexpected diff of 0 when searching for element spot"]
             ELSE [ret |-> 0, panic |-> NoPanic]
        ELSE IF diff = 1
        THEN IF cmp(self.backing[start_j][1][2], elem) \in {"Less", "Equal"}
             THEN [ret |-> end_j, panic |-> NoPanic]
             ELSE IF start_j = 0 THEN [ret |-> start_j, panic |-> NoPanic]
             ELSE [ret |-> 0, panic |-> "Reached invalid state during binary search, expected to find spot after index {} but didn't"]
        ELSE IF cmp(self.backing[midpoint][1][2], elem) \in {"Less", "Equal"}
        THEN search_for_new_spot(self, elem, midpoint + 1, end_j)
        ELSE search_for_new_spot(self, elem, start_j, midpoint)

search_for_new_spot(self, elem, start_j, end_j) ==
    LET diff == end_j - start_j
        midpoint == start_j + (diff \div 2)
    IN  IF diff < 0 THEN [ret |-> 0, panic |-> SubtractOverflow]
        ELSE IF diff = 0
        THEN IF self.len # 0
             THEN [ret |-> 0, panic |-> "Unexpected diff of 0 when searching for element spot"]
             ELSE [ret |-> 0, panic |-> NoPanic]
        ELSE IF diff = 1
        THEN IF start_j \notin DOMAIN self.backing THEN [ret |-> 0, panic |-> OutOfBounds]
             ELSE IF self.backing[start_j] = None
             THEN [ret |-> 0, panic |-> "Unexpected None at index {} of backing array for searchable list with len {}"]
             ELSE IF cmp(self.backing[start_j][1][2], elem) \in {"Less", "Equal"}
             THEN [ret |-> end_j, panic |-> NoPanic]
             ELSE IF start_j = 0 THEN [ret |-> start_j, panic |-> NoPanic]
             ELSE [ret |-> 0, panic |-> "Reached invalid state during binary search, expected to find spot after index {} but didn't"]
        ELSE IF midpoint \notin DOMAIN self.backing THEN [ret |-> 0, panic |-> OutOfBounds]
        ELSE IF self.backing[midpoint] = None
        THEN [ret |-> 0, panic |-> "Unexpected None at index {} of backing array for searchable list with len {}"]
        ELSE IF cmp(self.backing[midpoint][1][2], elem) \in {"Less", "Equal"}
        THEN search_for_new_spot(self, elem, midpoint, end_j)
        ELSE search_for_new_spot(self, elem, start_j, midpoint)

\* SearchableList::search_for_new_spot, returning the ranges (start_j, end_j)
\* of its successive calls in place of the spot.
RECURSIVE search_for_new_spot_ranges(_, _, _, _)
search_for_new_spot_ranges(self, elem, start_j, end_j) ==
    LET diff == end_j - start_j
        midpoint == start_j + (diff \div 2)
    IN  IF diff <= 1 THEN << <<start_j, end_j>> >>
        ELSE IF midpoint \notin DOMAIN self.backing THEN << <<start_j, end_j>> >>
        ELSE IF self.backing[midpoint] = None THEN << <<start_j, end_j>> >>
        ELSE IF cmp(self.backing[midpoint][1][2], elem) \in {"Less", "Equal"}
        THEN << <<start_j, end_j>> >> \o search_for_new_spot_ranges(self, elem, midpoint, end_j)
        ELSE << <<start_j, end_j>> >> \o search_for_new_spot_ranges(self, elem, start_j, midpoint)

\* SearchableList::search_for_existing_spot_by, f being |el| el.cmp(elem)
RECURSIVE search_for_existing_spot_by(_, _, _, _)
search_for_existing_spot_by(self, elem, start_j, end_j) ==
    LET diff == end_j - start_j
        midpoint == start_j + (diff \div 2)
    IN  IF diff < 0 THEN [ret |-> None, panic |-> SubtractOverflow]
        ELSE IF diff = 0 THEN [ret |-> None, panic |-> NoPanic]
        ELSE IF diff = 1
        THEN IF start_j \notin DOMAIN self.backing THEN [ret |-> None, panic |-> OutOfBounds]
             ELSE IF self.backing[start_j] = None
             THEN [ret |-> None, panic |-> "Unexpected none at in index {} or {} in backing array"]
             ELSE IF end_j \notin DOMAIN self.backing THEN [ret |-> None, panic |-> OutOfBounds]
             ELSE IF self.backing[end_j] = None
             THEN [ret |-> None, panic |-> "Unexpected none at in index {} or {} in backing array"]
             ELSE LET s == self.backing[start_j][1]
                      e == self.backing[end_j][1]
                  IN  IF cmp(s[2], elem) = "Equal" THEN [ret |-> Some(s[1]), panic |-> NoPanic]
                      ELSE IF cmp(e[2], elem) = "Equal" THEN [ret |-> Some(e[1]), panic |-> NoPanic]
                      ELSE [ret |-> None, panic |-> NoPanic]
        ELSE IF midpoint \notin DOMAIN self.backing THEN [ret |-> None, panic |-> OutOfBounds]
        ELSE IF self.backing[midpoint] = None
        THEN [ret |-> None, panic |-> "Unexpected None at index {} of backing array for searchable list with len {}"]
        ELSE LET m == self.backing[midpoint][1]
             IN  IF cmp(m[2], elem) = "Equal" THEN [ret |-> Some(m[1]), panic |-> NoPanic]
                 ELSE IF cmp(m[2], elem) = "Less"
                 THEN search_for_existing_spot_by(self, elem, midpoint, end_j)
                 ELSE search_for_existing_spot_by(self, elem, start_j, midpoint)

\* Mutant of find: the search runs over the whole backing array, 0 .. N.
find_searches_whole_array(self, elem) ==
    search_for_existing_spot_by(self, elem, 0, N)

\* SearchableList::find
SearchableList_find(self, elem) ==
    search_for_existing_spot_by(self, elem, 0, self.len)

\* format!("Attempted to access index {} of SList with len {}", index, len)
index_panic_message(index, self_len) ==
    "Attempted to access index " \o ToString(index)
        \o " of SList with len " \o ToString(self_len)

\* The rest of index, after its range check: indices[index], then backing[j].
index_body(self, index) ==
    IF index \notin DOMAIN self.indices THEN [ret |-> None, panic |-> OutOfBounds]
    ELSE IF self.indices[index] = None THEN [ret |-> None, panic |-> "Issue in index method"]
    ELSE LET j == self.indices[index][1]
         IN  IF j \notin DOMAIN self.backing THEN [ret |-> None, panic |-> OutOfBounds]
             ELSE IF self.backing[j] = None THEN [ret |-> None, panic |-> "Issue in index method"]
             ELSE [ret |-> Some(self.backing[j][1][2]), panic |-> NoPanic]

\* Mutant of index: the range check is off by one (index > len).
index_checks_above_len(self, index) ==
    IF index > self.len
    THEN [ret |-> None, panic |-> index_panic_message(index, self.len)]
    ELSE index_body(self, index)

\* Index<usize> for SearchableList: index
SearchableList_index(self, index) ==
    IF index >= self.len
    THEN [ret |-> None, panic |-> index_panic_message(index, self.len)]
    ELSE index_body(self, index)

\* The loop of push, for j in (spot..self.len).rev(): slot j moves to j + 1.
RECURSIVE push_shift(_, _, _)
\* Mutant of push_shift: the slots move, their indices entries are not updated.
push_shift_keeps_indices(self, spot, j) ==
    IF j < spot THEN [self |-> self, panic |-> NoPanic]
    ELSE push_shift([self EXCEPT !.backing[j] = None,
                                 !.backing[j + 1] = self.backing[j]], spot, j - 1)

push_shift(self, spot, j) ==
    IF j < spot THEN [self |-> self, panic |-> NoPanic]
    ELSE IF j \notin DOMAIN self.backing THEN [self |-> self, panic |-> OutOfBounds]
    ELSE IF self.backing[j] = None
    THEN [self |-> self, panic |-> "Unexpected None at index {} in backing array with len {}"]
    ELSE LET el == self.backing[j][1]
             taken == [self EXCEPT !.backing[j] = None]
         IN  IF el[1] \notin DOMAIN taken.indices THEN [self |-> taken, panic |-> OutOfBounds]
             ELSE IF is_some(taken.indices[el[1]]) /\ taken.indices[el[1]][1] # j
             THEN [self |-> taken, panic |-> "Mismatched j's, j = {}, j2 = {}"]
             ELSE LET moved == IF is_some(taken.indices[el[1]])
                               THEN [taken EXCEPT !.indices[el[1]] = Some(j + 1)]
                               ELSE taken
                  IN  IF j + 1 \notin DOMAIN moved.backing
                      THEN [self |-> moved, panic |-> OutOfBounds]
                      ELSE push_shift([moved EXCEPT !.backing[j + 1] = Some(el)], spot, j - 1)

\* Mutant of push_body: the element goes to the back, no search for its spot.
push_body_appends(self, elem) ==
    [self |-> [self EXCEPT !.backing[self.len] = Some(<<self.len, elem>>),
                           !.indices[self.len] = Some(self.len),
                           !.len = self.len + 1],
     ret |-> None, panic |-> NoPanic]

\* SearchableList::push after its capacity check: search, shift, write.
push_body(self, elem) ==
    LET found == search_for_new_spot(self, elem, 0, self.len)
        spot == found.ret
        shifted == IF spot # self.len THEN push_shift(self, spot, self.len - 1)
                   ELSE [self |-> self, panic |-> NoPanic]
    IN  IF found.panic # NoPanic THEN [self |-> self, ret |-> None, panic |-> found.panic]
        ELSE IF shifted.panic # NoPanic
        THEN [self |-> shifted.self, ret |-> None, panic |-> shifted.panic]
        ELSE IF spot \notin DOMAIN self.backing
        THEN [self |-> shifted.self, ret |-> None, panic |-> OutOfBounds]
        ELSE IF self.len \notin DOMAIN self.indices
        THEN [self |-> [shifted.self EXCEPT !.backing[spot] = Some(<<self.len, elem>>)],
              ret |-> None, panic |-> OutOfBounds]
        ELSE [self |-> [shifted.self EXCEPT !.backing[spot] = Some(<<self.len, elem>>),
                                            !.indices[self.len] = Some(spot),
                                            !.len = self.len + 1],
              ret |-> None, panic |-> NoPanic]

\* Mutant of push: the capacity check is off by one (len > N).
push_checks_len_above_N(self, elem) ==
    IF self.len > N
    THEN [self |-> self, ret |-> None, panic |-> "Tried to add element to full list"]
    ELSE push_body(self, elem)

\* SearchableList::push
SearchableList_push(self, elem) ==
    IF self.len >= N
    THEN [self |-> self, ret |-> None, panic |-> "Tried to add element to full list"]
    ELSE push_body(self, elem)

\* The loop of pop, for j2 in j..self.len - 1: slot j2 + 1 moves to j2.
RECURSIVE pop_shift(_, _)
\* Mutant of pop_shift: the slots move, their indices entries are not updated.
pop_shift_keeps_indices(self, j2) ==
    IF j2 >= self.len - 1 THEN [self |-> self, panic |-> NoPanic]
    ELSE pop_shift([self EXCEPT !.backing[j2 + 1] = None,
                                !.backing[j2] = self.backing[j2 + 1]], j2 + 1)

\* Mutant of pop_shift: the loop ends one slot early, for j2 in j..self.len - 2.
pop_shift_stops_early(self, j2) ==
    IF j2 >= self.len - 2 THEN [self |-> self, panic |-> NoPanic]
    ELSE LET next == self.backing[j2 + 1]
         IN  pop_shift([self EXCEPT !.backing[j2 + 1] = None,
                                    !.indices[next[1][1]] = Some(@[1] - 1),
                                    !.backing[j2] = next], j2 + 1)

pop_shift(self, j2) ==
    IF j2 >= self.len - 1 THEN [self |-> self, panic |-> NoPanic]
    ELSE IF j2 + 1 \notin DOMAIN self.backing THEN [self |-> self, panic |-> OutOfBounds]
    ELSE LET next == self.backing[j2 + 1]
             taken == [self EXCEPT !.backing[j2 + 1] = None]
         IN  IF next = None THEN pop_shift(taken, j2 + 1)
             ELSE IF next[1][1] \notin DOMAIN taken.indices
             THEN [self |-> taken, panic |-> OutOfBounds]
             ELSE IF taken.indices[next[1][1]] = None THEN pop_shift(taken, j2 + 1)
             ELSE IF taken.indices[next[1][1]][1] = 0
             THEN [self |-> taken, panic |-> SubtractOverflow]
             ELSE pop_shift([taken EXCEPT !.indices[next[1][1]] = Some(@[1] - 1),
                                          !.backing[j2] = next], j2 + 1)

\* Mutant of pop: the element at the back of the backing array is removed.
pop_takes_last_slot(self) ==
    IF self.len = 0 THEN [self |-> self, ret |-> None, panic |-> NoPanic]
    ELSE LET el == self.backing[self.len - 1][1]
         IN  [self |-> [self EXCEPT !.backing[self.len - 1] = None,
                                    !.indices[el[1]] = None,
                                    !.len = self.len - 1],
              ret |-> Some(el[2]), panic |-> NoPanic]

\* Mutant of pop: the vacated tail slots of indices and backing are not cleared.
pop_keeps_tail_slot(self) ==
    IF self.len = 0 THEN [self |-> self, ret |-> None, panic |-> NoPanic]
    ELSE LET j == self.indices[self.len - 1][1]
             el == self.backing[j][1]
             shifted == pop_shift([self EXCEPT !.backing[j] = None], j)
         IN  [self |-> [shifted.self EXCEPT !.len = self.len - 1],
              ret |-> Some(el[2]), panic |-> NoPanic]

\* SearchableList::pop
SearchableList_pop(self) ==
    IF self.len = 0 THEN [self |-> self, ret |-> None, panic |-> NoPanic]
    ELSE IF self.len - 1 \notin DOMAIN self.indices
    THEN [self |-> self, ret |-> None, panic |-> OutOfBounds]
    ELSE IF self.indices[self.len - 1] = None
    THEN [self |-> self, ret |-> None,
          panic |-> "Unexpected None at index {} of SList indices arr, with len = {}"]
    ELSE LET j == self.indices[self.len - 1][1]
         IN  IF j \notin DOMAIN self.backing
             THEN [self |-> self, ret |-> None, panic |-> OutOfBounds]
             ELSE IF self.backing[j] = None
             THEN [self |-> self, ret |-> None,
                   panic |-> "Unexpected None at index {} of SList backing arr, with len = {}"]
             ELSE LET el == self.backing[j][1]
                      taken == [self EXCEPT !.backing[j] = None]
                      shifted == pop_shift(taken, j)
                  IN  IF el[1] # self.len - 1
                      THEN [self |-> taken, ret |-> None,
                            panic |-> "Mismatched indices, backing array contains {} but expected {}"]
                      ELSE IF shifted.panic # NoPanic
                      THEN [self |-> shifted.self, ret |-> None, panic |-> shifted.panic]
                      ELSE [self |-> [shifted.self EXCEPT !.len = self.len - 1,
                                                          !.indices[self.len - 1] = None,
                                                          !.backing[self.len - 1] = None],
                            ret |-> Some(el[2]), panic |-> NoPanic]

\* ---------------------------------------------------------------- Stack
\* Stack::new
Stack_new == [arr |-> [i \in 0 .. N - 1 |-> None], len |-> 0]

\* Stack::len
Stack_len(self) == self.len

\* Stack::push
Stack_push(self, elem) ==
    IF self.len >= N
    THEN [self |-> self, ret |-> None, panic |-> "Attempt to add value to full stack"]
    ELSE [self |-> [self EXCEPT !.arr[self.len] = Some(elem), !.len = self.len + 1],
          ret |-> None, panic |-> NoPanic]

\* Stack::pop
Stack_pop(self) ==
    IF self.len = 0 THEN [self |-> self, ret |-> None, panic |-> NoPanic]
    ELSE [self |-> [self EXCEPT !.len = self.len - 1, !.arr[self.len - 1] = None],
          ret |-> self.arr[self.len - 1], panic |-> NoPanic]

\* ---------------------------------------------------------------- Queue
\* Queue::new
Queue_new == [arr |-> [i \in 0 .. N - 1 |-> None], index |-> 0, len |-> 0]

\* Queue::len
Queue_len(self) == self.len

\* Mutant of push_back: the slot is written before the capacity check.
push_back_writes_first(self, elem) ==
    IF N = 0
    THEN [self |-> self, ret |-> None, panic |-> "Attempt to add element to full queue"]
    ELSE LET pos == (self.index + self.len) % N
             written == [self EXCEPT !.arr[pos] = Some(elem)]
         IN  IF self.len >= N
             THEN [self |-> written, ret |-> None,
                   panic |-> "Attempt to add element to full queue"]
             ELSE [self |-> [written EXCEPT !.len = self.len + 1],
                   ret |-> None, panic |-> NoPanic]

\* Queue::push_back
Queue_push_back(self, elem) ==
    IF self.len >= N
    THEN [self |-> self, ret |-> None, panic |-> "Attempt to add element to full queue"]
    ELSE LET pos == (self.index + self.len) % N
         IN  [self |-> [self EXCEPT !.arr[pos] = Some(elem), !.len = self.len + 1],
              ret |-> None, panic |-> NoPanic]

\* Mutant of pop_front: the head index advances without wrapping.
pop_front_without_wrap(self) ==
    IF self.len = 0 THEN [self |-> self, ret |-> None, panic |-> NoPanic]
    ELSE [self |-> [self EXCEPT !.arr[self.index] = None,
                                !.len = self.len - 1,
                                !.index = self.index + 1],
          ret |-> self.arr[self.index], panic |-> NoPanic]

\* Queue::pop_front
Queue_pop_front(self) ==
    IF self.len = 0 THEN [self |-> self, ret |-> None, panic |-> NoPanic]
    ELSE IF self.index \notin DOMAIN self.arr
    THEN [self |-> self, ret |-> None, panic |-> OutOfBounds]
    ELSE IF self.arr[self.index] = None
    THEN [self |-> self, ret |-> None,
          panic |-> "Unexpected None in backing array at index {}"]
    ELSE [self |-> [self EXCEPT !.arr[self.index] = None,
                                !.len = self.len - 1,
                                !.index = (self.index + 1) % N],
          ret |-> self.arr[self.index], panic |-> NoPanic]

\* A usize remainder by 0.
RemainderByZero == "attempt to calculate the remainder with a divisor of zero"

\* Index<usize> for Queue: index
Queue_index(self, index) ==
    IF N = 0 THEN [ret |-> None, panic |-> RemainderByZero]
    ELSE LET pos == (self.index + index) % N
         IN  IF self.arr[pos] = None
             THEN [ret |-> None, panic |-> "Invalid index access: {}"]
             ELSE [ret |-> self.arr[pos], panic |-> NoPanic]

\* IndexMut<usize> for Queue: index_mut, the slot the returned &mut points at.
Queue_index_mut(self, index) ==
    IF N = 0 THEN [ret |-> None, panic |-> RemainderByZero]
    ELSE LET pos == (self.index + index) % N
         IN  IF self.arr[pos] = None
             THEN [ret |-> None, panic |-> "Invalid index access: {}"]
             ELSE [ret |-> Some(pos), panic |-> NoPanic]

\* ----------------------------------------------------------------- List
\* List::new
List_new == [arr |-> [i \in 0 .. N - 1 |-> None], len |-> 0]

\* List::len
List_len(self) == self.len

\* List::push_back
List_push_back(self, elem) ==
    IF self.len >= N
    THEN [self |-> self, ret |-> None, panic |-> "Attempt to add element to full list"]
    ELSE [self |-> [self EXCEPT !.arr[self.len] = Some(elem), !.len = self.len + 1],
          ret |-> None, panic |-> NoPanic]

\* List::pop_back
List_pop_back(self) ==
    IF self.len = 0 THEN [self |-> self, ret |-> None, panic |-> NoPanic]
    ELSE LET popped == [self EXCEPT !.len = self.len - 1]
         IN  IF popped.arr[popped.len] = None
             THEN [self |-> popped, ret |-> None,
                   panic |-> "Unexpected None in backing array at index {}"]
             ELSE [self |-> [popped EXCEPT !.arr[popped.len] = None],
                   ret |-> popped.arr[popped.len], panic |-> NoPanic]

\* The loops of remove and remove_by, for i in index..self.len: slot i + 1
\* moves to slot i.
RECURSIVE remove_shift(_, _)
remove_shift(self, i) ==
    IF i >= self.len THEN self
    ELSE remove_shift([self EXCEPT !.arr[i] = self.arr[i + 1],
                                   !.arr[i + 1] = None], i + 1)

\* List::remove
List_remove(self, index) ==
    IF index >= self.len
    THEN [self |-> self, ret |-> None,
          panic |-> "Attempt to remove element at invalid index: {} where len is {}"]
    ELSE IF self.arr[index] = None
    THEN [self |-> self, ret |-> None,
          panic |-> "Unexpected None in backing array at index {}"]
    ELSE LET taken == [self EXCEPT !.arr[index] = None, !.len = self.len - 1]
             shifted == remove_shift(taken, index)
         IN  [self |-> [shifted EXCEPT !.arr[shifted.len] = None],
              ret |-> self.arr[index], panic |-> NoPanic]

\* A closure F: Fn(&T) -> bool, as the number whose binary digit x tells
\* whether f(&x) is true.
Closures == 0 .. 2 ^ (MaxElem + 1) - 1
call_f(f, x) == (f \div 2 ^ x) % 2 = 1

\* Mutant of last_spot: the loop ends at the first element satisfying f.
last_spot_ends_at_first(self, f) ==
    LET satisfying == {i \in 0 .. self.len - 1 : call_f(f, self.arr[i][1])}
    IN  IF satisfying = {} THEN None
        ELSE Some(CHOOSE i \in satisfying : \A k \in satisfying : i <= k)

\* The first loop of remove_by: the last position whose element satisfies f.
last_spot(self, f) ==
    LET satisfying == {i \in 0 .. self.len - 1 : call_f(f, self.arr[i][1])}
    IN  IF satisfying = {} THEN None
        ELSE Some(CHOOSE i \in satisfying : \A k \in satisfying : k <= i)

\* List::remove_by
List_remove_by(self, f) ==
    IF \E i \in 0 .. self.len - 1 : self.arr[i] = None
    THEN [self |-> self, ret |-> None,
          panic |-> "None at unexpected pos: {} when len is {}"]
    ELSE LET spot == last_spot(self, f)
         IN  IF spot = None THEN [self |-> self, ret |-> None, panic |-> NoPanic]
             ELSE LET index == spot[1]
                      taken == [self EXCEPT !.arr[index] = None, !.len = self.len - 1]
                      shifted == remove_shift(taken, index)
                  IN  [self |-> [shifted EXCEPT !.arr[shifted.len] = None],
                       ret |-> self.arr[index], panic |-> NoPanic]

\* -------------------------------------------------------- PriorityQueue
\* PriorityQueue::new
PriorityQueue_new == [arr |-> [i \in 0 .. N - 1 |-> None], len |-> 0]

\* PriorityQueue::len
PriorityQueue_len(self) == self.len

\* PriorityQueue::search_for_new_spot
RECURSIVE PriorityQueue_search_for_new_spot(_, _, _, _)
PriorityQueue_search_for_new_spot(self, elem, start, end) ==
    LET diff == end - start
        midpoint == start + (diff \div 2)
    IN  IF diff < 0 THEN [ret |-> 0, panic |-> SubtractOverflow]
        ELSE IF diff = 0
        THEN IF self.len # 0
             THEN [ret |-> 0, panic |-> "search_for_new_spot called with end-start of 0 when len is {}"]
             ELSE [ret |-> 0, panic |-> NoPanic]
        ELSE IF diff = 1
        THEN IF start \notin DOMAIN self.arr THEN [ret |-> 0, panic |-> OutOfBounds]
             ELSE IF self.arr[start] = None
             THEN [ret |-> 0, panic |-> "Unexpected None at index {} when len {}"]
             ELSE IF cmp(self.arr[start][1], elem) \in {"Greater", "Equal"}
             THEN [ret |-> end, panic |-> NoPanic]
             ELSE [ret |-> start, panic |-> NoPanic]
        ELSE IF midpoint \notin DOMAIN self.arr THEN [ret |-> 0, panic |-> OutOfBounds]
        ELSE IF self.arr[midpoint] = None
        THEN [ret |-> 0, panic |-> "Unexpected None at index {} when len {}"]
        ELSE IF cmp(self.arr[midpoint][1], elem) \in {"Greater", "Equal"}
        THEN PriorityQueue_search_for_new_spot(self, elem, midpoint, end)
        ELSE PriorityQueue_search_for_new_spot(self, elem, start, midpoint)

\* The loop of insert, for i in (spot..self.len).rev(): slot i moves to i + 1.
RECURSIVE insert_shift(_, _, _)
insert_shift(self, spot, i) ==
    IF i < spot THEN [self |-> self, panic |-> NoPanic]
    ELSE IF i \notin DOMAIN self.arr THEN [self |-> self, panic |-> OutOfBounds]
    ELSE IF i + 1 \notin DOMAIN self.arr
    THEN [self |-> [self EXCEPT !.arr[i] = None], panic |-> OutOfBounds]
    ELSE insert_shift([self EXCEPT !.arr[i] = None, !.arr[i + 1] = self.arr[i]],
                      spot, i - 1)

\* Mutant of insert: the element goes to the back, no search for its spot.
insert_appends(self, elem) ==
    IF self.len >= N
    THEN [self |-> self, ret |-> None,
          panic |-> "Attempt to add element to full priority queue"]
    ELSE [self |-> [self EXCEPT !.arr[self.len] = Some(elem), !.len = self.len + 1],
          ret |-> None, panic |-> NoPanic]

\* PriorityQueue::insert
PriorityQueue_insert(self, elem) ==
    IF self.len >= N
    THEN [self |-> self, ret |-> None,
          panic |-> "Attempt to add element to full priority queue"]
    ELSE LET found == PriorityQueue_search_for_new_spot(self, elem, 0, self.len)
             spot == found.ret
             shifted == insert_shift(self, spot, self.len - 1)
         IN  IF found.panic # NoPanic
             THEN [self |-> self, ret |-> None, panic |-> found.panic]
             ELSE IF shifted.panic # NoPanic
             THEN [self |-> shifted.self, ret |-> None, panic |-> shifted.panic]
             ELSE IF spot \notin DOMAIN self.arr
             THEN [self |-> shifted.self, ret |-> None, panic |-> OutOfBounds]
             ELSE [self |-> [shifted.self EXCEPT !.arr[spot] = Some(elem),
                                                 !.len = self.len + 1],
                   ret |-> None, panic |-> NoPanic]

\* PriorityQueue::pop
PriorityQueue_pop(self) ==
    IF self.len = 0 THEN [self |-> self, ret |-> None, panic |-> NoPanic]
    ELSE IF self.len - 1 \notin DOMAIN self.arr
    THEN [self |-> self, ret |-> None, panic |-> OutOfBounds]
    ELSE IF self.arr[self.len - 1] = None
    THEN [self |-> self, ret |-> None,
          panic |-> "Unexpected None at index {} when len is {}"]
    ELSE [self |-> [self EXCEPT !.arr[self.len - 1] = None, !.len = self.len - 1],
          ret |-> self.arr[self.len - 1], panic |-> NoPanic]

\* The reference LIFO stack: push and pop of a plain unbounded stack.
lifo_push(st, elem) == Append(st, elem)
lifo_pop(st) ==
    IF st = << >> THEN [self |-> st, ret |-> None]
    ELSE [self |-> SubSeq(st, 1, Len(st) - 1), ret |-> Some(st[Len(st)])]

NoSCall == [op |-> "new", elem |-> 0, index |-> 0, ret |-> None, lifo_ret |-> None,
            panic |-> NoPanic]

\* SearchableList::new beside an empty reference stack.
SListNew ==
    /\ slist = SearchableList_new
    /\ lifo = << >>
    /\ scall = NoSCall
    /\ spre = [slist |-> slist, lifo |-> lifo]

\* The reference FIFO queue: pop of the oldest element of a plain sequence.
fifo_pop(st) ==
    IF st = << >> THEN [self |-> st, ret |-> None]
    ELSE [self |-> SubSeq(st, 2, Len(st)), ret |-> Some(st[1])]

\* The reference sequence: removal of the element at position i (from 0).
seq_remove(st, i) ==
    IF i >= Len(st) THEN [self |-> st, ret |-> None]
    ELSE [self |-> SubSeq(st, 1, i) \o SubSeq(st, i + 2, Len(st)), ret |-> Some(st[i + 1])]

\* The reference priority buffer: pop of a minimum of a plain sequence.
min_pop(st) ==
    IF st = << >> THEN [self |-> st, ret |-> None]
    ELSE LET m == CHOOSE x \in {st[i] : i \in DOMAIN st} :
                      \A y \in {st[i] : i \in DOMAIN st} : x <= y
             at == CHOOSE i \in DOMAIN st :
                       st[i] = m /\ \A k \in DOMAIN st : st[k] = m => i <= k
         IN  [self |-> SubSeq(st, 1, at - 1) \o SubSeq(st, at + 1, Len(st)),
              ret |-> Some(m)]

NoCCall == [op |-> "new", elem |-> 0, index |-> 0, ret |-> None, ref_ret |-> None,
            panic |-> NoPanic]

\* Stack::new, Queue::new, List::new and PriorityQueue::new, nothing held.
CollNew ==
    /\ stack = Stack_new
    /\ queue = Queue_new
    /\ list = List_new
    /\ pqueue = PriorityQueue_new
    /\ held = << >>
    /\ ccall = NoCCall
    /\ cpre = [stack |-> stack, queue |-> queue, list |-> list, pqueue |-> pqueue,
               held |-> held]

\* ---------------------------------------------------- the hasher on its own
NoHCall == [op |-> "build_hasher", ret |-> 0]

\* The number of bytes written so far, and their sum.
RECURSIVE count_fed(_, _)
count_fed(f, b) == IF b < 0 THEN 0 ELSE f[b] + count_fed(f, b - 1)
RECURSIVE sum_fed(_, _)
sum_fed(f, b) == IF b < 0 THEN 0 ELSE b * f[b] + sum_fed(f, b - 1)

\* fed after one more slice has been written.
feed(f, bytes) ==
    [b \in Bytes |-> f[b] + Cardinality({i \in DOMAIN bytes : bytes[i] = b})]

\* BuildDefaultHasher::<0>::build_hasher, nothing written yet.
HasherNew ==
    /\ builder = BuildDefaultHasher(0)
    /\ default_hasher = build_hasher(builder)
    /\ fed = [b \in Bytes |-> 0]
    /\ hcall = NoHCall

\* ------------------------------------------- specification Spec: map and set
\* A HashMap and a HashSet of the same N and hasher receive the same calls.
\* twin and ref take no part here.
NoShadow == [twin_ret |-> no_ret, ref_ret |-> no_ret]
NoCall == [op |-> "new", key |-> 0, val |-> "", ret |-> no_ret, set_ret |-> no_ret]

\* HashMap::new_with_hasher / HashSet::new_with_hasher, any N and hasher.
Init ==
    /\ N \in 0 .. MaxN
    /\ \E h \in BuildHashers :
        /\ map = new_with_hasher(h)
        /\ set = HashSet_new_with_hasher(h)
        /\ twin = new_with_hasher(h)
    /\ ref = << >>
    /\ shadow = NoShadow
    /\ call = NoCall
    /\ pre = [map |-> map, set |-> set]
    /\ inserts_only = TRUE
    /\ panicked = FALSE
    /\ pc = 0
    /\ SListNew
    /\ which = ""
    /\ CollNew
    /\ HasherNew

\* map.insert(k, v); set.insert(k)
Insert(k, v) ==
    LET m == insert(map, k, v)
        s == HashSet_insert(set, k)
    IN  /\ ~panicked
        /\ map' = m.self
        /\ set' = s.self
        /\ call' = [op |-> "insert", key |-> k, val |-> v, ret |-> ret_bool(m.ret), set_ret |-> ret_bool(s.ret)]
        /\ pre' = [map |-> map, set |-> set]
        /\ panicked' = (m.panic \/ s.panic)
        /\ UNCHANGED <<hasher_vars, slist_vars, coll_vars, pc, N, twin, ref, shadow, inserts_only>>

\* map.remove(&k); set.remove(&k)
Remove(k) ==
    LET m == remove(map, k)
        s == HashSet_remove(set, k)
    IN  /\ ~panicked
        /\ map' = m.self
        /\ set' = s.self
        /\ call' = [op |-> "remove", key |-> k, val |-> "", ret |-> ret_option(m.ret), set_ret |-> ret_option(s.ret)]
        /\ pre' = [map |-> map, set |-> set]
        /\ inserts_only' = FALSE
        /\ UNCHANGED <<hasher_vars, slist_vars, coll_vars, pc, N, twin, ref, shadow, panicked>>

\* map.get(&k); set.get(&k)
Get(k) ==
    /\ ~panicked
    /\ call' = [op |-> "get", key |-> k, val |-> "", ret |-> ret_option(get(map, k)),
                set_ret |-> ret_option(HashSet_get(set, k))]
    /\ pre' = [map |-> map, set |-> set]
    /\ UNCHANGED <<hasher_vars, slist_vars, coll_vars, pc, N, map, set, twin, ref, shadow, inserts_only, panicked>>

\* map.contains_key(&k); set.contains(&k)
ContainsKey(k) ==
    /\ ~panicked
    /\ call' = [op |-> "contains_key", key |-> k, val |-> "", ret |-> ret_bool(contains_key(map, k)),
                set_ret |-> ret_bool(contains(set, k))]
    /\ pre' = [map |-> map, set |-> set]
    /\ UNCHANGED <<hasher_vars, slist_vars, coll_vars, pc, N, map, set, twin, ref, shadow, inserts_only, panicked>>

\* map.len(); set.len()
LenCall ==
    /\ ~panicked
    /\ call' = [op |-> "len", key |-> 0, val |-> "", ret |-> ret_usize(len(map)),
                set_ret |-> ret_usize(HashSet_len(set))]
    /\ pre' = [map |-> map, set |-> set]
    /\ UNCHANGED <<hasher_vars, slist_vars, coll_vars, pc, N, map, set, twin, ref, shadow, inserts_only, panicked>>

Next ==
    \/ \E k \in Keys, v \in Vals : Insert(k, v)
    \/ \E k \in Keys : Remove(k)
    \/ \E k \in Keys : Get(k)
    \/ \E k \in Keys : ContainsKey(k)
    \/ LenCall

Spec == Init /\ [][Next]_vars

\* ----------------------------- specification SpecRef: map and reference map
\* The reference bounded map of size N: a finite function from keys to values.
ref_insert(M, k, v) ==
    IF Cardinality(DOMAIN M) = N \/ k \in DOMAIN M
    THEN [self |-> M, ret |-> FALSE]
    ELSE [self |-> [x \in DOMAIN M \cup {k} |-> IF x = k THEN v ELSE M[x]],
          ret |-> TRUE]

ref_remove(M, k) ==
    IF k \in DOMAIN M
    THEN [self |-> [x \in DOMAIN M \ {k} |-> M[x]], ret |-> Some(M[k])]
    ELSE [self |-> M, ret |-> None]

ref_get(M, k) == IF k \in DOMAIN M THEN Some(M[k]) ELSE None

ref_contains_key(M, k) == k \in DOMAIN M

ref_len(M) == Cardinality(DOMAIN M)

\* A map built by new_with_hasher with any hasher, and an empty reference map.
InitRef == Init

\* map.insert(k, v) beside the reference insert
InsertRef(k, v) ==
    LET m == insert(map, k, v)
        r == ref_insert(ref, k, v)
    IN  /\ ~panicked
        /\ map' = m.self
        /\ ref' = r.self
        /\ call' = [op |-> "insert", key |-> k, val |-> v, ret |-> ret_bool(m.ret), set_ret |-> no_ret]
        /\ shadow' = [twin_ret |-> no_ret, ref_ret |-> ret_bool(r.ret)]
        /\ pre' = [map |-> map, set |-> set]
        /\ panicked' = m.panic
        /\ UNCHANGED <<hasher_vars, slist_vars, coll_vars, pc, N, set, twin, inserts_only>>

\* map.remove(&k) beside the reference remove
RemoveRef(k) ==
    LET m == remove(map, k)
        r == ref_remove(ref, k)
    IN  /\ ~panicked
        /\ map' = m.self
        /\ ref' = r.self
        /\ call' = [op |-> "remove", key |-> k, val |-> "", ret |-> ret_option(m.ret), set_ret |-> no_ret]
        /\ shadow' = [twin_ret |-> no_ret, ref_ret |-> ret_option(r.ret)]
        /\ pre' = [map |-> map, set |-> set]
        /\ inserts_only' = FALSE
        /\ UNCHANGED <<hasher_vars, slist_vars, coll_vars, pc, N, set, twin, panicked>>

\* map.get(&k) beside the reference get
GetRef(k) ==
    /\ ~panicked
    /\ call' = [op |-> "get", key |-> k, val |-> "", ret |-> ret_option(get(map, k)), set_ret |-> no_ret]
    /\ shadow' = [twin_ret |-> no_ret, ref_ret |-> ret_option(ref_get(ref, k))]
    /\ pre' = [map |-> map, set |-> set]
    /\ UNCHANGED <<hasher_vars, slist_vars, coll_vars, pc, N, map, set, twin, ref, inserts_only, panicked>>

\* map.contains_key(&k) beside the reference contains_key
ContainsKeyRef(k) ==
    /\ ~panicked
    /\ call' = [op |-> "contains_key", key |-> k, val |-> "",
                ret |-> ret_bool(contains_key(map, k)), set_ret |-> no_ret]
    /\ shadow' = [twin_ret |-> no_ret, ref_ret |-> ret_bool(ref_contains_key(ref, k))]
    /\ pre' = [map |-> map, set |-> set]
    /\ UNCHANGED <<hasher_vars, slist_vars, coll_vars, pc, N, map, set, twin, ref, inserts_only, panicked>>

\* map.len() beside the reference len
LenCallRef ==
    /\ ~panicked
    /\ call' = [op |-> "len", key |-> 0, val |-> "", ret |-> ret_usize(len(map)), set_ret |-> no_ret]
    /\ shadow' = [twin_ret |-> no_ret, ref_ret |-> ret_usize(ref_len(ref))]
    /\ pre' = [map |-> map, set |-> set]
    /\ UNCHANGED <<hasher_vars, slist_vars, coll_vars, pc, N, map, set, twin, ref, inserts_only, panicked>>

NextRef ==
    \/ \E k \in Keys, v \in Vals : InsertRef(k, v)
    \/ \E k \in Keys : RemoveRef(k)
    \/ \E k \in Keys : GetRef(k)
    \/ \E k \in Keys : ContainsKeyRef(k)
    \/ LenCallRef

SpecRef == InitRef /\ [][NextRef]_vars

\* ------------------------------ specification SpecTwin: two maps, two hashers
\* Two maps of the same N, each built by new_with_hasher with any hasher,
\* receive the same calls.
InitTwin ==
    /\ N \in 0 .. MaxN
    /\ \E h1 \in BuildHashers, h2 \in BuildHashers :
        /\ map = new_with_hasher(h1)
        /\ set = HashSet_new_with_hasher(h1)
        /\ twin = new_with_hasher(h2)
    /\ ref = << >>
    /\ call = NoCall
    /\ shadow = NoShadow
    /\ pre = [map |-> map, set |-> set]
    /\ inserts_only = TRUE
    /\ panicked = FALSE
    /\ pc = 0
    /\ SListNew
    /\ which = ""
    /\ CollNew
    /\ HasherNew

\* map.insert(k, v); twin.insert(k, v)
InsertTwin(k, v) ==
    LET m == insert(map, k, v)
        t == insert(twin, k, v)
    IN  /\ ~panicked
        /\ map' = m.self
        /\ twin' = t.self
        /\ call' = [op |-> "insert", key |-> k, val |-> v, ret |-> ret_bool(m.ret), set_ret |-> no_ret]
        /\ shadow' = [twin_ret |-> ret_bool(t.ret), ref_ret |-> no_ret]
        /\ pre' = [map |-> map, set |-> set]
        /\ panicked' = (m.panic \/ t.panic)
        /\ UNCHANGED <<hasher_vars, slist_vars, coll_vars, pc, N, set, ref, inserts_only>>

\* map.remove(&k); twin.remove(&k)
RemoveTwin(k) ==
    LET m == remove(map, k)
        t == remove(twin, k)
    IN  /\ ~panicked
        /\ map' = m.self
        /\ twin' = t.self
        /\ call' = [op |-> "remove", key |-> k, val |-> "", ret |-> ret_option(m.ret), set_ret |-> no_ret]
        /\ shadow' = [twin_ret |-> ret_option(t.ret), ref_ret |-> no_ret]
        /\ pre' = [map |-> map, set |-> set]
        /\ inserts_only' = FALSE
        /\ UNCHANGED <<hasher_vars, slist_vars, coll_vars, pc, N, set, ref, panicked>>

\* map.get(&k); twin.get(&k)
GetTwin(k) ==
    /\ ~panicked
    /\ call' = [op |-> "get", key |-> k, val |-> "", ret |-> ret_option(get(map, k)), set_ret |-> no_ret]
    /\ shadow' = [twin_ret |-> ret_option(get(twin, k)), ref_ret |-> no_ret]
    /\ pre' = [map |-> map, set |-> set]
    /\ UNCHANGED <<hasher_vars, slist_vars, coll_vars, pc, N, map, set, twin, ref, inserts_only, panicked>>

\* map.contains_key(&k); twin.contains_key(&k)
ContainsKeyTwin(k) ==
    /\ ~panicked
    /\ call' = [op |-> "contains_key", key |-> k, val |-> "",
                ret |-> ret_bool(contains_key(map, k)), set_ret |-> no_ret]
    /\ shadow' = [twin_ret |-> ret_bool(contains_key(twin, k)), ref_ret |-> no_ret]
    /\ pre' = [map |-> map, set |-> set]
    /\ UNCHANGED <<hasher_vars, slist_vars, coll_vars, pc, N, map, set, twin, ref, inserts_only, panicked>>

\* map.len(); twin.len()
LenCallTwin ==
    /\ ~panicked
    /\ call' = [op |-> "len", key |-> 0, val |-> "", ret |-> ret_usize(len(map)), set_ret |-> no_ret]
    /\ shadow' = [twin_ret |-> ret_usize(len(twin)), ref_ret |-> no_ret]
    /\ pre' = [map |-> map, set |-> set]
    /\ UNCHANGED <<hasher_vars, slist_vars, coll_vars, pc, N, map, set, twin, ref, inserts_only, panicked>>

NextTwin ==
    \/ \E k \in Keys, v \in Vals : InsertTwin(k, v)
    \/ \E k \in Keys : RemoveTwin(k)
    \/ \E k \in Keys : GetTwin(k)
    \/ \E k \in Keys : ContainsKeyTwin(k)
    \/ LenCallTwin

SpecTwin == InitTwin /\ [][NextTwin]_vars

\* ------------------------------------- specification SpecSList: one list
\* A SearchableList of any N in 0..MaxListN receives push, pop, find, index
\* and len calls; lifo receives the same push and pop calls.  The tables take
\* no part here.
InitSList ==
    /\ N \in 0 .. MaxListN
    /\ map = new_with_hasher(IntCollBuildHasher)
    /\ set = HashSet_new_with_hasher(IntCollBuildHasher)
    /\ twin = new_with_hasher(IntCollBuildHasher)
    /\ ref = << >>
    /\ shadow = NoShadow
    /\ call = NoCall
    /\ pre = [map |-> map, set |-> set]
    /\ inserts_only = TRUE
    /\ panicked = FALSE
    /\ pc = 0
    /\ SListNew
    /\ which = ""
    /\ CollNew
    /\ HasherNew

\* slist.push(elem)
SListPush(elem) ==
    LET r == SearchableList_push(slist, elem)
    IN  /\ ~panicked
        /\ slist' = r.self
        /\ lifo' = IF r.panic = NoPanic THEN lifo_push(lifo, elem) ELSE lifo
        /\ scall' = [op |-> "push", elem |-> elem, index |-> 0, ret |-> r.ret,
                     lifo_ret |-> None, panic |-> r.panic]
        /\ spre' = [slist |-> slist, lifo |-> lifo]
        /\ panicked' = (r.panic # NoPanic)
        /\ UNCHANGED <<hasher_vars, N, table_vars, coll_vars>>

\* slist.pop()
SListPop ==
    LET r == SearchableList_pop(slist)
        l == lifo_pop(lifo)
    IN  /\ ~panicked
        /\ slist' = r.self
        /\ lifo' = IF r.panic = NoPanic THEN l.self ELSE lifo
        /\ scall' = [op |-> "pop", elem |-> 0, index |-> 0, ret |-> r.ret,
                     lifo_ret |-> l.ret, panic |-> r.panic]
        /\ spre' = [slist |-> slist, lifo |-> lifo]
        /\ panicked' = (r.panic # NoPanic)
        /\ UNCHANGED <<hasher_vars, N, table_vars, coll_vars>>

\* slist.find(&elem)
SListFind(elem) ==
    LET r == SearchableList_find(slist, elem)
    IN  /\ ~panicked
        /\ scall' = [op |-> "find", elem |-> elem, index |-> 0, ret |-> r.ret,
                     lifo_ret |-> None, panic |-> r.panic]
        /\ spre' = [slist |-> slist, lifo |-> lifo]
        /\ panicked' = (r.panic # NoPanic)
        /\ UNCHANGED <<hasher_vars, N, table_vars, coll_vars, slist, lifo>>

\* slist[index]
SListIndex(index) ==
    LET r == SearchableList_index(slist, index)
    IN  /\ ~panicked
        /\ scall' = [op |-> "index", elem |-> 0, index |-> index, ret |-> r.ret,
                     lifo_ret |-> None, panic |-> r.panic]
        /\ spre' = [slist |-> slist, lifo |-> lifo]
        /\ panicked' = (r.panic # NoPanic)
        /\ UNCHANGED <<hasher_vars, N, table_vars, coll_vars, slist, lifo>>

\* slist.len()
SListLen ==
    /\ ~panicked
    /\ scall' = [op |-> "len", elem |-> 0, index |-> 0,
                 ret |-> Some(SearchableList_len(slist)), lifo_ret |-> None,
                 panic |-> NoPanic]
    /\ spre' = [slist |-> slist, lifo |-> lifo]
    /\ UNCHANGED <<hasher_vars, N, table_vars, coll_vars, slist, lifo, panicked>>

NextSList ==
    \/ \E elem \in Elems : SListPush(elem)
    \/ SListPop
    \/ \E elem \in Elems : SListFind(elem)
    \/ \E index \in 0 .. MaxListN : SListIndex(index)
    \/ SListLen

SpecSList == InitSList /\ [][NextSList]_vars

\* ------------------------- specification SpecColl: the collaborator containers
\* The program builds one container, a Stack, a Queue, a List or a
\* PriorityQueue of any N in 0..MaxCollN, and calls its operations; held
\* receives the same calls.  The tables and the SearchableList take no part.
InitColl ==
    /\ N \in 0 .. MaxCollN
    /\ map = new_with_hasher(IntCollBuildHasher)
    /\ set = HashSet_new_with_hasher(IntCollBuildHasher)
    /\ twin = new_with_hasher(IntCollBuildHasher)
    /\ ref = << >>
    /\ shadow = NoShadow
    /\ call = NoCall
    /\ pre = [map |-> map, set |-> set]
    /\ inserts_only = TRUE
    /\ panicked = FALSE
    /\ pc = 0
    /\ SListNew
    /\ which \in {"Stack", "Queue", "List", "PriorityQueue"}
    /\ CollNew
    /\ HasherNew

\* What every call on the container records: the call, its result r, the
\* reference's result h, the state before it, and whether it panicked.
Called(op, elem, index, r, h) ==
    /\ ~panicked
    /\ ccall' = [op |-> op, elem |-> elem, index |-> index, ret |-> r.ret,
                 ref_ret |-> h.ret, panic |-> r.panic]
    /\ cpre' = [stack |-> stack, queue |-> queue, list |-> list, pqueue |-> pqueue,
                held |-> held]
    /\ held' = IF r.panic = NoPanic THEN h.self ELSE held
    /\ panicked' = (r.panic # NoPanic)
    /\ UNCHANGED <<hasher_vars, N, table_vars, slist_vars, which>>

\* stack.push(elem)
StackPush(elem) ==
    LET r == Stack_push(stack, elem)
    IN  /\ which = "Stack"
        /\ stack' = r.self
        /\ UNCHANGED <<queue, list, pqueue>>
        /\ Called("push", elem, 0, r, [self |-> lifo_push(held, elem), ret |-> None])

\* stack.pop()
StackPop ==
    LET r == Stack_pop(stack)
    IN  /\ which = "Stack"
        /\ stack' = r.self
        /\ UNCHANGED <<queue, list, pqueue>>
        /\ Called("pop", 0, 0, r, lifo_pop(held))

\* queue.push_back(elem)
QueuePushBack(elem) ==
    LET r == Queue_push_back(queue, elem)
    IN  /\ which = "Queue"
        /\ queue' = r.self
        /\ UNCHANGED <<stack, list, pqueue>>
        /\ Called("push_back", elem, 0, r, [self |-> lifo_push(held, elem), ret |-> None])

\* queue.pop_front()
QueuePopFront ==
    LET r == Queue_pop_front(queue)
    IN  /\ which = "Queue"
        /\ queue' = r.self
        /\ UNCHANGED <<stack, list, pqueue>>
        /\ Called("pop_front", 0, 0, r, fifo_pop(held))

\* queue[index]
QueueIndex(index) ==
    LET r == Queue_index(queue, index)
    IN  /\ which = "Queue"
        /\ UNCHANGED <<stack, queue, list, pqueue>>
        /\ Called("index", 0, index, r, [self |-> held, ret |-> None])

\* list.push_back(elem)
ListPushBack(elem) ==
    LET r == List_push_back(list, elem)
    IN  /\ which = "List"
        /\ list' = r.self
        /\ UNCHANGED <<stack, queue, pqueue>>
        /\ Called("push_back", elem, 0, r, [self |-> lifo_push(held, elem), ret |-> None])

\* list.pop_back()
ListPopBack ==
    LET r == List_pop_back(list)
    IN  /\ which = "List"
        /\ list' = r.self
        /\ UNCHANGED <<stack, queue, pqueue>>
        /\ Called("pop_back", 0, 0, r, lifo_pop(held))

\* list.remove(index)
ListRemove(index) ==
    LET r == List_remove(list, index)
    IN  /\ which = "List"
        /\ list' = r.self
        /\ UNCHANGED <<stack, queue, pqueue>>
        /\ Called("remove", 0, index, r, seq_remove(held, index))

\* list.remove_by(f); the closure is recorded in the call's elem field.
ListRemoveBy(f) ==
    LET r == List_remove_by(list, f)
        satisfying == {i \in DOMAIN held : call_f(f, held[i])}
    IN  /\ which = "List"
        /\ list' = r.self
        /\ UNCHANGED <<stack, queue, pqueue>>
        /\ Called("remove_by", f, 0, r,
                  IF satisfying = {} THEN [self |-> held, ret |-> None]
                  ELSE seq_remove(held, (CHOOSE i \in satisfying :
                                            \A k \in satisfying : k <= i) - 1))

\* pqueue.insert(elem)
PriorityQueueInsert(elem) ==
    LET r == PriorityQueue_insert(pqueue, elem)
    IN  /\ which = "PriorityQueue"
        /\ pqueue' = r.self
        /\ UNCHANGED <<stack, queue, list>>
        /\ Called("insert", elem, 0, r, [self |-> lifo_push(held, elem), ret |-> None])

\* pqueue.pop()
PriorityQueuePop ==
    LET r == PriorityQueue_pop(pqueue)
    IN  /\ which = "PriorityQueue"
        /\ pqueue' = r.self
        /\ UNCHANGED <<stack, queue, list>>
        /\ Called("pop", 0, 0, r, min_pop(held))

NextColl ==
    \/ \E elem \in Elems : StackPush(elem)
    \/ StackPop
    \/ \E elem \in Elems : QueuePushBack(elem)
    \/ QueuePopFront
    \/ \E index \in 0 .. MaxCollN : QueueIndex(index)
    \/ \E elem \in Elems : ListPushBack(elem)
    \/ ListPopBack
    \/ \E index \in 0 .. MaxCollN : ListRemove(index)
    \/ \E f \in Closures : ListRemoveBy(f)
    \/ \E elem \in Elems : PriorityQueueInsert(elem)
    \/ PriorityQueuePop

SpecColl == InitColl /\ [][NextColl]_vars

\* ------------------ specification SpecTest: test_collisions beside free calls
\* The calls of test_collisions, in order.
test_collisions ==
    << <<"insert", 1>>, <<"insert", 2>>, <<"insert", 3>>, <<"insert", 4>>,
       <<"remove", 2>>, <<"remove", 1>>, <<"insert", 5>> >>

\* The keys test_collisions inserts before it removes any.
first_keys == {test_collisions[i][2] : i \in {j \in DOMAIN test_collisions :
                  \A k \in 1 .. j : test_collisions[k][1] = "insert"}}

\* test_collisions: a map and a set with the all-keys-collide hasher, of any N
\* that holds the test's keys.
InitTest ==
    /\ N \in Cardinality(first_keys) .. MaxTestN
    /\ map = new_with_hasher(IntCollBuildHasher)
    /\ set = HashSet_new_with_hasher(IntCollBuildHasher)
    /\ twin = new_with_hasher(IntCollBuildHasher)
    /\ ref = << >>
    /\ shadow = NoShadow
    /\ call = NoCall
    /\ pre = [map |-> map, set |-> set]
    /\ inserts_only = TRUE
    /\ panicked = FALSE
    /\ pc = 1
    /\ SListNew
    /\ which = ""
    /\ CollNew
    /\ HasherNew

\* The test's next call, an insert: map.insert(k, v); set.insert(k)
TestInsert ==
    /\ pc \in DOMAIN test_collisions
    /\ test_collisions[pc][1] = "insert"
    /\ ~panicked
    /\ \E v \in Vals :
        LET k == test_collisions[pc][2]
            m == insert(map, k, v)
            s == HashSet_insert(set, k)
        IN  /\ map' = m.self
            /\ set' = s.self
            /\ call' = [op |-> "insert", key |-> k, val |-> v, ret |-> ret_bool(m.ret),
                        set_ret |-> ret_bool(s.ret)]
            /\ panicked' = (m.panic \/ s.panic)
    /\ pre' = [map |-> map, set |-> set]
    /\ pc' = pc + 1
    /\ UNCHANGED <<hasher_vars, slist_vars, coll_vars, N, twin, ref, shadow, inserts_only>>

\* The test's next call, a remove: map.remove(&k); set.remove(&k)
TestRemove ==
    /\ pc \in DOMAIN test_collisions
    /\ test_collisions[pc][1] = "remove"
    /\ ~panicked
    /\ LET k == test_collisions[pc][2]
           m == remove(map, k)
           s == HashSet_remove(set, k)
       IN  /\ map' = m.self
           /\ set' = s.self
           /\ call' = [op |-> "remove", key |-> k, val |-> "", ret |-> ret_option(m.ret),
                       set_ret |-> ret_option(s.ret)]
    /\ pre' = [map |-> map, set |-> set]
    /\ inserts_only' = FALSE
    /\ pc' = pc + 1
    /\ UNCHANGED <<hasher_vars, slist_vars, coll_vars, N, twin, ref, shadow, panicked>>

\* Either the test runs, or arbitrary calls reach a table of any N and hasher.
InitTestOrFree == Init \/ InitTest

NextTest ==
    \/ TestInsert
    \/ TestRemove
    \/ (pc = 0 /\ Next)

SpecTest == InitTestOrFree /\ [][NextTest]_vars

\* --------------- specification SpecSListTest: test_pop beside free calls
\* The calls of test_pop, in order; its pushes are those of test_push_back.
test_pop ==
    << <<"push", 1>>, <<"push", 3>>, <<"push", 2>>, <<"push", 0>>,
       <<"pop", 0>>, <<"pop", 0>>, <<"pop", 0>>, <<"pop", 0>>, <<"pop", 0>> >>

\* The number of elements test_pop pushes.
pushes == Cardinality({i \in DOMAIN test_pop : test_pop[i][1] = "push"})

\* test_pop: a SearchableList of any N that holds the test's elements.
InitSListTest ==
    /\ N \in pushes .. MaxListN
    /\ map = new_with_hasher(IntCollBuildHasher)
    /\ set = HashSet_new_with_hasher(IntCollBuildHasher)
    /\ twin = new_with_hasher(IntCollBuildHasher)
    /\ ref = << >>
    /\ shadow = NoShadow
    /\ call = NoCall
    /\ pre = [map |-> map, set |-> set]
    /\ inserts_only = TRUE
    /\ panicked = FALSE
    /\ pc = 1
    /\ SListNew
    /\ which = ""
    /\ CollNew
    /\ HasherNew

\* The test's next call, a push: slist.push(elem)
TestPush ==
    /\ pc \in DOMAIN test_pop
    /\ test_pop[pc][1] = "push"
    /\ ~panicked
    /\ LET elem == test_pop[pc][2]
           r == SearchableList_push(slist, elem)
       IN  /\ slist' = r.self
           /\ lifo' = IF r.panic = NoPanic THEN lifo_push(lifo, elem) ELSE lifo
           /\ scall' = [op |-> "push", elem |-> elem, index |-> 0, ret |-> r.ret,
                        lifo_ret |-> None, panic |-> r.panic]
           /\ panicked' = (r.panic # NoPanic)
    /\ spre' = [slist |-> slist, lifo |-> lifo]
    /\ pc' = pc + 1
    /\ UNCHANGED <<hasher_vars, N, map, set, twin, ref, call, shadow, pre, inserts_only, coll_vars>>

\* The test's next call, a pop: slist.pop()
TestPop ==
    /\ pc \in DOMAIN test_pop
    /\ test_pop[pc][1] = "pop"
    /\ ~panicked
    /\ LET r == SearchableList_pop(slist)
           l == lifo_pop(lifo)
       IN  /\ slist' = r.self
           /\ lifo' = IF r.panic = NoPanic THEN l.self ELSE lifo
           /\ scall' = [op |-> "pop", elem |-> 0, index |-> 0, ret |-> r.ret,
                        lifo_ret |-> l.ret, panic |-> r.panic]
           /\ panicked' = (r.panic # NoPanic)
    /\ spre' = [slist |-> slist, lifo |-> lifo]
    /\ pc' = pc + 1
    /\ UNCHANGED <<hasher_vars, N, map, set, twin, ref, call, shadow, pre, inserts_only, coll_vars>>

\* Either the test runs, or arbitrary calls reach a list of any N.
InitSListTestOrFree == InitSList \/ InitSListTest

NextSListTest ==
    \/ TestPush
    \/ TestPop
    \/ (pc = 0 /\ NextSList)

SpecSListTest == InitSListTestOrFree /\ [][NextSListTest]_vars

\* ------------------------------ specification SpecHasher: a DefaultHasher
\* A DefaultHasher built with any SEED receives write and finish calls.  The
\* tables and the containers take no part here.
InitHasher ==
    /\ N = 0
    /\ map = new_with_hasher(IntCollBuildHasher)
    /\ set = HashSet_new_with_hasher(IntCollBuildHasher)
    /\ twin = new_with_hasher(IntCollBuildHasher)
    /\ ref = << >>
    /\ shadow = NoShadow
    /\ call = NoCall
    /\ pre = [map |-> map, set |-> set]
    /\ inserts_only = TRUE
    /\ panicked = FALSE
    /\ pc = 0
    /\ SListNew
    /\ which = ""
    /\ CollNew
    /\ builder \in {BuildDefaultHasher(s) : s \in 0 .. Modulus - 1}
    /\ default_hasher = build_hasher(builder)
    /\ fed = [b \in Bytes |-> 0]
    /\ hcall = NoHCall

\* default_hasher.write(bytes)
HasherWrite(bytes) ==
    /\ count_fed(fed, MaxByte) + Len(bytes) <= MaxFed
    /\ default_hasher' = write(default_hasher, bytes)
    /\ fed' = feed(fed, bytes)
    /\ hcall' = [op |-> "write", ret |-> 0]
    /\ UNCHANGED <<N, table_vars, panicked, slist_vars, coll_vars, builder>>

\* default_hasher.finish()
HasherFinish ==
    /\ hcall' = [op |-> "finish", ret |-> finish(default_hasher)]
    /\ UNCHANGED <<N, table_vars, panicked, slist_vars, coll_vars, builder, default_hasher, fed>>

NextHasher ==
    \/ \E bytes \in Slices : HasherWrite(bytes)
    \/ HasherFinish

SpecHasher == InitHasher /\ [][NextHasher]_vars

\* ------------------------------------------------------------- properties
\* The slots of a table that are Occupied.
occupied(slots) == {i \in DOMAIN slots : slots[i][1] = "Occupied"}

\* The slots in which two arrays of the same length differ.
changed(before, after) == {i \in DOMAIN before : before[i] # after[i]}

\* The number of probe steps from slot `from` to slot `to`, wrapping mod N.
steps(from, to) == (to - from + N) % N

\* C1: insert(k, v) called while k is present (contains_key(k) is true)
\* returns false and is a no-op: every slot, the value stored for k and len
\* are unchanged.  The same for the set.
C1_InsertOfPresentKeyIsNoOp ==
    call.op = "insert" =>
        /\ contains_key(pre.map, call.key) => (call.ret.bool = FALSE /\ map = pre.map)
        /\ contains(pre.set, call.key) => (call.set_ret.bool = FALSE /\ set = pre.set)

\* C2: no two Occupied slots hold equal keys.
C2_OneOccupiedSlotPerKey ==
    /\ \A i, j \in occupied(map.entries) :
        map.entries[i][2] = map.entries[j][2] => i = j
    /\ \A i, j \in occupied(set.arr) :
        set.arr[i][2] = set.arr[j][2] => i = j

\* C3: after remove(k) returns (Some or None), get(k) is None, contains_key(k)
\* is false and a second remove(k) returns None.
C3_RemovedKeyIsAbsent ==
    call.op = "remove" =>
        /\ get(map, call.key) = None
        /\ ~contains_key(map, call.key)
        /\ remove(map, call.key).ret = None
        /\ HashSet_get(set, call.key) = None
        /\ ~contains(set, call.key)
        /\ HashSet_remove(set, call.key).ret = None

\* C4: if insert(k, v) returns true then immediately afterwards get(k) is
\* Some(v), contains_key(k) is true and len has increased by exactly 1.
C4_InsertedKeyIsFound ==
    (call.op = "insert" /\ call.ret.bool = TRUE) =>
        /\ get(map, call.key) = Some(call.val)
        /\ contains_key(map, call.key)
        /\ len(map) = len(pre.map) + 1

\* C4's case: a successful insert that probed past its home slot and landed
\* in a tombstone.
C4_Witness ==
    /\ call.op = "insert"
    /\ call.ret.bool = TRUE
    /\ \E i \in DOMAIN map.entries :
        /\ pre.map.entries[i] = Deleted
        /\ map.entries[i] = Occupied(call.key, call.val)
        /\ i # hash_key(map, call.key) % N

\* C5: starting from an empty table of size N, every insert of a key not
\* inserted before succeeds while len < N, whatever the hasher (so N distinct
\* keys succeed N times); an insert of any key at len = N returns false and
\* leaves len and all slots unchanged.
C5_Capacity ==
    call.op = "insert" =>
        /\ ( /\ inserts_only
             /\ pre.map.len < N
             /\ \A i \in occupied(pre.map.entries) : pre.map.entries[i][2] # call.key )
           => (call.ret.bool = TRUE /\ map.len = pre.map.len + 1)
        /\ pre.map.len = N => (call.ret.bool = FALSE /\ map = pre.map /\ ~panicked)

\* C5's case: N distinct all-colliding keys filled the largest table and the
\* insert of one more distinct key was refused.
C5_Witness ==
    /\ call.op = "insert"
    /\ inserts_only
    /\ N = MaxN
    /\ map.build_hasher = IntCollBuildHasher
    /\ pre.map.len = N
    /\ Cardinality({pre.map.entries[i][2] : i \in occupied(pre.map.entries)}) = N
    /\ \A i \in occupied(pre.map.entries) : pre.map.entries[i][2] # call.key
    /\ call.ret.bool = FALSE

\* C6: len equals the number of Occupied slots, 0 <= len <= N, and len()
\* returns that number.  The same for the set.
C6_LenCountsOccupiedSlots ==
    /\ map.len = Cardinality(occupied(map.entries))
    /\ 0 <= map.len /\ map.len <= N
    /\ set.len = Cardinality(occupied(set.arr))
    /\ 0 <= set.len /\ set.len <= N
    /\ call.op = "len" =>
        /\ call.ret.usize = Cardinality(occupied(map.entries))
        /\ call.set_ret.usize = Cardinality(occupied(set.arr))

\* C6's case: len() called on a table holding a tombstone beside a live key.
C6_Witness ==
    /\ call.op = "len"
    /\ call.ret.usize = 1
    /\ \E i \in DOMAIN map.entries : map.entries[i] = Deleted

\* C7: remove(k) with k present returns Some(v), v the value get(k) returned
\* just before; exactly one slot changes, the one holding k that the
\* existence probe finds, from Occupied to Deleted; len decreases by exactly
\* 1 and every other slot is unchanged.
C7_RemoveChangesOneSlot ==
    (call.op = "remove" /\ contains_key(pre.map, call.key)) =>
        LET spot == probe_for_existing_spot(pre.map, call.key)[1]
        IN  /\ is_some(call.ret.option)
            /\ call.ret.option = get(pre.map, call.key)
            /\ pre.map.entries[spot][1] = "Occupied"
            /\ pre.map.entries[spot][2] = call.key
            /\ map.entries[spot] = Deleted
            /\ changed(pre.map.entries, map.entries) = {spot}
            /\ map.len = pre.map.len - 1

\* C7's case: the removed key sat past its home slot, behind a collision.
C7_Witness ==
    /\ call.op = "remove"
    /\ is_some(call.ret.option)
    /\ \E i \in changed(pre.map.entries, map.entries) :
        i # hash_key(map, call.key) % N

\* C8: for all keys k and k2 with k2 # k, remove(k) does not change the result
\* of get(k2) or contains_key(k2).
C8_RemoveKeepsOtherKeys ==
    call.op = "remove" =>
        \A k2 \in Keys \ {call.key} :
            /\ get(map, k2) = get(pre.map, k2)
            /\ contains_key(map, k2) = contains_key(pre.map, k2)
            /\ HashSet_get(set, k2) = HashSet_get(pre.set, k2)
            /\ contains(set, k2) = contains(pre.set, k2)

\* C8's case: a key stored beyond the removed slot on a shared probe path is
\* still found once that slot is Deleted.
C8_Witness ==
    /\ call.op = "remove"
    /\ is_some(call.ret.option)
    /\ \E k2 \in Keys \ {call.key}, s \in changed(pre.map.entries, map.entries) :
        LET home == hash_key(map, k2) % N
            found == probe_for_existing_spot(map, k2)
        IN  /\ is_some(found)
            /\ steps(home, s) < steps(home, found[1])
            /\ map.entries[s] = Deleted

\* C9: every insert, remove, get, contains_key and len call returns the same
\* result as the reference bounded map given the same calls.
C9_RefinesReferenceMap ==
    call.op # "new" => call.ret = shadow.ref_ret

\* C10: two tables of the same size N with any two hashers, driven by the
\* same calls, return identical results at every call.
C10_HashIndependence ==
    call.op # "new" => call.ret = shadow.twin_ret

\* Whether no Occupied slot of the array holds the key.
absent(slots, key) == \A i \in occupied(slots) : slots[i][2] # key

\* C11: get and contains_key never modify the table (slots and len are
\* unchanged); in every reachable state contains_key(k) is true exactly when
\* get(k) is Some; for a key held by no Occupied slot get returns None,
\* contains_key returns false and remove returns None leaving slots and len
\* unchanged, without a panic.  The same for the set.
C11_LookupsArePure ==
    /\ call.op \in {"get", "contains_key"} => (map = pre.map /\ set = pre.set)
    /\ \A k \in Keys :
        /\ contains_key(map, k) <=> is_some(get(map, k))
        /\ contains(set, k) <=> is_some(HashSet_get(set, k))
        /\ absent(map.entries, k) =>
            /\ get(map, k) = None
            /\ ~contains_key(map, k)
            /\ remove(map, k) = [self |-> map, ret |-> None]
        /\ absent(set.arr, k) =>
            /\ HashSet_get(set, k) = None
            /\ ~contains(set, k)
            /\ HashSet_remove(set, k) = [self |-> set, ret |-> None]
    /\ (call.op = "remove" /\ absent(pre.map.entries, call.key)) =>
        (call.ret.option = None /\ map = pre.map /\ ~panicked)
    /\ (call.op = "remove" /\ absent(pre.set.arr, call.key)) =>
        (call.set_ret.option = None /\ set = pre.set /\ ~panicked)

\* C11's case: remove of an absent key on a table without an Empty slot (the
\* probe wraps all the way round), beside a live key stored past its home slot.
C11_Witness ==
    /\ call.op = "remove"
    /\ absent(pre.map.entries, call.key)
    /\ call.ret.option = None
    /\ N = MaxN
    /\ \A i \in DOMAIN map.entries : map.entries[i] # Empty
    /\ \E i \in occupied(map.entries) :
        i # hash_key(map, map.entries[i][2]) % N

\* C12: whenever len is 0 (a fresh table, an emptied one holding only Empty
\* and Deleted slots, or N = 0), get, contains_key and remove return None,
\* false and None without hashing the key and without changing a slot or len.
\* The same for the set.
C12_EmptyTableSkipsHashing ==
    /\ (call.op \in {"get", "contains_key", "remove"} /\ pre.map.len = 0) =>
        /\ call.ret = (IF call.op = "contains_key" THEN ret_bool(FALSE) ELSE ret_option(None))
        /\ ~probe_for_existing_spot_traced(pre.map, call.key).hashed
        /\ map = pre.map
        /\ ~panicked
    /\ (call.op \in {"get", "contains_key", "remove"} /\ pre.set.len = 0) =>
        /\ call.set_ret = (IF call.op = "contains_key" THEN ret_bool(FALSE) ELSE ret_option(None))
        /\ ~HashSet_probe_for_existing_spot_traced(pre.set, call.key).hashed
        /\ set = pre.set
        /\ ~panicked

\* C12's case: a lookup on a table emptied by removes, every slot Deleted.
C12_Witness ==
    /\ call.op \in {"get", "contains_key", "remove"}
    /\ pre.map.len = 0
    /\ N = MaxN
    /\ \A i \in DOMAIN pre.map.entries : pre.map.entries[i] = Deleted

\* Whether insert(key, _) on the table is refused for lack of room.
capacity_rejected(self, key) == self.len = N

\* Whether insert(key, _) on the table is refused with room left, the key
\* being there already.
duplicate_rejected(self, key) ==
    self.len < N /\ probe_for_available_spot(self, key) = None

\* C13 as stated: the result of a failed insert tells a refusal for lack of
\* room (len = N) from a refusal of a duplicate key: the two results differ.
C13_FailureCausesDiffer ==
    \A k1, k2 \in Keys, v \in Vals :
        (capacity_rejected(pre.map, k1) /\ duplicate_rejected(map, k2)) =>
            insert(pre.map, k1, v).ret # insert(map, k2, v).ret

\* C13 amended: an insert that is refused returns false and changes nothing,
\* whether it is refused for lack of room or as a duplicate: the result is
\* the same for both.
C13_FailureIsFalse ==
    /\ \A k \in Keys, v \in Vals :
        (capacity_rejected(map, k) \/ duplicate_rejected(map, k)) =>
            insert(map, k, v) = [self |-> map, ret |-> FALSE, panic |-> FALSE]
    /\ (call.op = "insert" /\ (capacity_rejected(pre.map, call.key)
                                \/ duplicate_rejected(pre.map, call.key))) =>
        (call.ret = ret_bool(FALSE) /\ map = pre.map)

\* C13's case: an insert refused as a duplicate on a table with room left,
\* in a run that also saw the table full.
C13_Witness ==
    /\ call.op = "insert"
    /\ duplicate_rejected(pre.map, call.key)
    /\ call.ret = ret_bool(FALSE)
    /\ ~inserts_only
    /\ N = MaxN

\* The slots 0 .. len - 1 of the backing array of a list.
live(self) == 0 .. self.len - 1

\* The values a list holds, as a set.
values(self) == {self.backing[j][1][2] : j \in {i \in live(self) : is_some(self.backing[i])}}

\* The slot of the backing array that the list's last handle points at.
back_slot(self) == self.indices[self.len - 1][1]

\* C14: after any sequence of push and pop, the live prefix backing[0..len)
\* is non-decreasing by value.
C14_BackingIsSorted ==
    /\ \A j \in live(slist) : is_some(slist.backing[j])
    /\ \A j \in live(slist) : j + 1 \in live(slist) =>
        slist.backing[j][1][2] <= slist.backing[j + 1][1][2]

\* C14's case: a push that placed its element strictly inside the list, with
\* smaller values before it and larger ones after it.
C14_Witness ==
    /\ scall.op = "push"
    /\ scall.panic = NoPanic
    /\ slist.len >= 3
    /\ 0 < back_slot(slist) /\ back_slot(slist) < slist.len - 1
    /\ slist.backing[0][1][2] < scall.elem
    /\ scall.elem < slist.backing[slist.len - 1][1][2]

\* C15: for every j < len, backing[j] = Some((h, v)) implies indices[h] =
\* Some(j); for every handle h < len, indices[h] = Some(j) with j < len and
\* backing[j] carrying handle h: the live handles and the live slots are in
\* one-to-one correspondence.
C15_HandlesAndSlotsCorrespond ==
    /\ \A j \in live(slist) :
        /\ is_some(slist.backing[j])
        /\ slist.backing[j][1][1] \in live(slist)
        /\ slist.indices[slist.backing[j][1][1]] = Some(j)
    /\ \A h \in live(slist) :
        /\ is_some(slist.indices[h])
        /\ slist.indices[h][1] \in live(slist)
        /\ is_some(slist.backing[slist.indices[h][1]])
        /\ slist.backing[slist.indices[h][1]][1][1] = h

\* C15's case: a pop that removed the smallest element of a list of three or
\* more, so every other element moved down one slot.
C15_Witness ==
    /\ scall.op = "pop"
    /\ scall.panic = NoPanic
    /\ spre.slist.len >= 3
    /\ back_slot(spre.slist) = 0

\* C16: a push on a list of length k gives its element the handle k; for
\* every handle h < len, list[h] is the value that was pushed when h was
\* assigned, whatever pushes and pops came later that left h live.
C16_HandlesAreStable ==
    /\ (scall.op = "push" /\ scall.panic = NoPanic) =>
        /\ is_some(slist.indices[spre.slist.len])
        /\ slist.backing[slist.indices[spre.slist.len][1]]
               = Some(<<spre.slist.len, scall.elem>>)
        /\ \A h \in live(spre.slist) :
            SearchableList_index(slist, h) = SearchableList_index(spre.slist, h)
    /\ (scall.op = "pop" /\ scall.panic = NoPanic) =>
        \A h \in live(slist) :
            SearchableList_index(slist, h) = SearchableList_index(spre.slist, h)
    /\ \A h \in live(slist) :
        SearchableList_index(slist, h) = [ret |-> Some(lifo[h + 1]), panic |-> NoPanic]
    /\ (scall.op = "index" /\ scall.index < slist.len) =>
        (scall.ret = Some(lifo[scall.index + 1]) /\ scall.panic = NoPanic)

\* C16's case: list[0] read after later pushes moved the first element to the
\* last slot of a list of three or more.
C16_Witness ==
    /\ scall.op = "index"
    /\ scall.index = 0
    /\ scall.panic = NoPanic
    /\ slist.len >= 3
    /\ slist.indices[0] = Some(slist.len - 1)

\* C17: pop on a non-empty list returns the value of the most recently pushed
\* element still in the list (handle len - 1) and decrements len by 1; every
\* pop returns what a plain LIFO stack given the same calls returns.
C17_PopIsLifo ==
    scall.op = "pop" =>
        /\ scall.panic = NoPanic
        /\ scall.ret = scall.lifo_ret
        /\ spre.slist.len = 0 => (scall.ret = None /\ slist = spre.slist)
        /\ spre.slist.len > 0 =>
            /\ scall.ret = SearchableList_index(spre.slist, spre.slist.len - 1).ret
            /\ is_some(scall.ret)
            /\ slist.len = spre.slist.len - 1

\* C17's case: the popped element sat strictly inside the backing array.
C17_Witness ==
    /\ scall.op = "pop"
    /\ scall.panic = NoPanic
    /\ spre.slist.len >= 3
    /\ 0 < back_slot(spre.slist) /\ back_slot(spre.slist) < spre.slist.len - 1

\* C18: in every state with len >= 1 (len = 1 and len = N included), for
\* every value v in the list, find(v) returns Some(h) with h < len and
\* list[h] = v; when v occurs once, h is the handle v was given when pushed.
C18_FindOfLiveValue ==
    (scall.op = "find" /\ spre.slist.len >= 1 /\ scall.elem \in values(spre.slist)) =>
        /\ scall.panic = NoPanic
        /\ is_some(scall.ret)
        /\ scall.ret[1] \in live(slist)
        /\ SearchableList_index(slist, scall.ret[1]).ret = Some(scall.elem)
        /\ lifo[scall.ret[1] + 1] = scall.elem

\* C19: find of a value the list does not hold returns None, without a panic
\* and without modifying the list.
C19_FindOfAbsentValue ==
    (scall.op = "find" /\ scall.elem \notin values(spre.slist)) =>
        /\ scall.panic = NoPanic
        /\ scall.ret = None
        /\ slist = spre.slist

\* C20: push on a full list (len = N) panics with "Tried to add element to
\* full list" before any write: backing, indices and len are unchanged; with
\* len < N push succeeds and increments len by exactly 1.
C20_PushOnFullListPanics ==
    scall.op = "push" =>
        /\ spre.slist.len = N =>
            /\ scall.panic = "Tried to add element to full list"
            /\ panicked
            /\ slist = spre.slist
        /\ spre.slist.len < N =>
            /\ scall.panic = NoPanic
            /\ ~panicked
            /\ slist.len = spre.slist.len + 1

\* C20's case: a push refused by a full list of the largest size.
C20_Witness ==
    /\ scall.op = "push"
    /\ N = MaxListN
    /\ spre.slist.len = N
    /\ panicked

\* C21: indexing a list by a handle h >= len always panics, with "Attempted
\* to access index h of SList with len len", and returns no element; for
\* h < len it never panics.
C21_IndexOutOfRangePanics ==
    /\ \A h \in 0 .. MaxListN :
        /\ h >= slist.len =>
            SearchableList_index(slist, h).panic
                = "Attempted to access index " \o ToString(h)
                    \o " of SList with len " \o ToString(slist.len)
        /\ h >= slist.len => SearchableList_index(slist, h).ret = None
        /\ h < slist.len =>
            /\ SearchableList_index(slist, h).panic = NoPanic
            /\ is_some(SearchableList_index(slist, h).ret)
    /\ scall.op = "index" =>
        /\ scall.index >= slist.len =>
            /\ panicked
            /\ scall.ret = None
            /\ scall.panic = "Attempted to access index " \o ToString(scall.index)
                                \o " of SList with len " \o ToString(slist.len)
        /\ scall.index < slist.len => (~panicked /\ is_some(scall.ret))

\* C21's case: list[len] on a full list of the largest size, the first handle
\* out of range.
C21_Witness ==
    /\ scall.op = "index"
    /\ N = MaxListN
    /\ slist.len = N
    /\ scall.index = slist.len
    /\ panicked

\* C22: on an empty list (len = 0, new or emptied by pops) pop returns None
\* and find(v) returns None for every v, and neither changes backing,
\* indices or len; a list emptied by pops is equal to a new one.
C22_EmptyListOperations ==
    /\ slist.len = 0 =>
        /\ slist = SearchableList_new
        /\ SearchableList_pop(slist) = [self |-> slist, ret |-> None, panic |-> NoPanic]
        /\ \A v \in Elems :
            SearchableList_find(slist, v) = [ret |-> None, panic |-> NoPanic]
    /\ (scall.op \in {"pop", "find"} /\ spre.slist.len = 0) =>
        /\ scall.ret = None
        /\ scall.panic = NoPanic
        /\ slist = spre.slist

\* C22's case: find on the empty list of the largest size.
C22_Witness ==
    /\ scall.op = "find"
    /\ spre.slist.len = 0
    /\ N = MaxListN
    /\ scall.ret = None

\* The container the program uses, out of a record of the four.
used(c) ==
    CASE which = "Stack" -> c.stack
      [] which = "Queue" -> c.queue
      [] which = "List" -> c.list
      [] OTHER -> c.pqueue

\* The panic message of an insert into the full container the program uses.
full_message ==
    CASE which = "Stack" -> "Attempt to add value to full stack"
      [] which = "Queue" -> "Attempt to add element to full queue"
      [] which = "List" -> "Attempt to add element to full list"
      [] OTHER -> "Attempt to add element to full priority queue"

\* C23: Stack.push, Queue.push_back, List.push_back and PriorityQueue.insert
\* on a full container (len = N) panic before any write: the backing array,
\* len and, for Queue, the head index are unchanged; with len < N they never
\* panic.
C23_InsertIntoFullContainerPanics ==
    ccall.op \in {"push", "push_back", "insert"} =>
        /\ used(cpre).len = N =>
            /\ ccall.panic = full_message
            /\ panicked
            /\ stack = cpre.stack
            /\ queue = cpre.queue
            /\ list = cpre.list
            /\ pqueue = cpre.pqueue
        /\ used(cpre).len < N =>
            /\ ccall.panic = NoPanic
            /\ ~panicked
            /\ used([stack |-> stack, queue |-> queue, list |-> list,
                     pqueue |-> pqueue]).len = used(cpre).len + 1

\* C23's case: push_back refused by a full queue of the largest size whose
\* head has moved off slot 0.
C23_Witness ==
    /\ which = "Queue"
    /\ ccall.op = "push_back"
    /\ N = MaxCollN
    /\ cpre.queue.len = N
    /\ cpre.queue.index > 0
    /\ panicked

\* The slots of a queue that hold its live elements.
live_slots(self) == {(self.index + i) % N : i \in 0 .. self.len - 1}

\* What C24 says of a queue apart from the range of its head index.
QueueIsFifo ==
    /\ queue.len = Len(held)
    /\ \A i \in 0 .. queue.len - 1 :
        /\ queue.arr[(queue.index + i) % N] = Some(held[i + 1])
        /\ Queue_index(queue, i) = [ret |-> Some(held[i + 1]), panic |-> NoPanic]
    /\ \A j \in DOMAIN queue.arr : j \notin live_slots(queue) => queue.arr[j] = None
    /\ ccall.op = "pop_front" =>
        /\ ccall.panic = NoPanic
        /\ ccall.ret = ccall.ref_ret
        /\ cpre.queue.len = 0 => ccall.ret = None

\* C24 as stated: the queue is FIFO across wrap-around: pop_front returns the
\* elements in the order they were pushed and None when empty; in every
\* reachable state the head index is < N, the live elements occupy slots
\* (index + i) mod N for i < len, all other slots are None, and queue[i] for
\* i < len is the i-th oldest element.
C24_QueueIsFifoHeadBelowN ==
    which = "Queue" => (queue.index < N /\ QueueIsFifo)

\* C24 amended: as C24, with the head index < N for every N >= 1 and equal to
\* 0 for N = 0 (a queue of no slots, always empty).
C24_QueueIsFifo ==
    which = "Queue" =>
        /\ N >= 1 => queue.index < N
        /\ N = 0 => (queue.index = 0 /\ queue.len = 0)
        /\ QueueIsFifo

\* C24's case: pop_front on a queue of the largest size whose live elements
\* span the end of the array.
C24_Witness ==
    /\ which = "Queue"
    /\ ccall.op = "pop_front"
    /\ N = MaxCollN
    /\ cpre.queue.index + cpre.queue.len > N
    /\ cpre.queue.len >= 2
    /\ is_some(ccall.ret)

\* How many of the first n slots of an array hold the value v.
count_in_arr(arr, n, v) == Cardinality({i \in 0 .. n - 1 : arr[i] = Some(v)})

\* How many entries of a sequence are the value v.
count_in_seq(st, v) == Cardinality({i \in DOMAIN st : st[i] = v})

\* C25: after any sequence of insert and pop, arr[0..len) is non-increasing
\* by value and the slots >= len are None; pop returns and removes a minimum
\* of the elements held, or None when there are none.
C25_PriorityQueueIsSorted ==
    which = "PriorityQueue" =>
        /\ \A i \in 0 .. pqueue.len - 1 : is_some(pqueue.arr[i])
        /\ \A i \in 0 .. pqueue.len - 2 : pqueue.arr[i][1] >= pqueue.arr[i + 1][1]
        /\ \A i \in DOMAIN pqueue.arr : i >= pqueue.len => pqueue.arr[i] = None
        /\ \A v \in Elems :
            count_in_arr(pqueue.arr, pqueue.len, v) = count_in_seq(held, v)
        /\ ccall.op = "pop" =>
            /\ ccall.panic = NoPanic
            /\ ccall.ret = ccall.ref_ret
            /\ cpre.pqueue.len = 0 => (ccall.ret = None /\ pqueue = cpre.pqueue)
            /\ cpre.pqueue.len > 0 =>
                /\ is_some(ccall.ret)
                /\ \A i \in 0 .. cpre.pqueue.len - 1 :
                    ccall.ret[1] <= cpre.pqueue.arr[i][1]
                /\ pqueue.len = cpre.pqueue.len - 1

\* C25's case: pop on a full queue of the largest size returns the element
\* that was inserted first, smaller than the ones inserted after it.
C25_Witness ==
    /\ which = "PriorityQueue"
    /\ ccall.op = "pop"
    /\ N = MaxCollN
    /\ cpre.pqueue.len = N
    /\ N >= 2
    /\ ccall.ret = Some(cpre.held[1])
    /\ \A i \in 2 .. Len(cpre.held) : cpre.held[1] < cpre.held[i]

\* A slot without its value: its tag, and its key when Occupied.
tag_and_key(entry) == IF entry[1] = "Occupied" THEN <<"Occupied", entry[2]>> ELSE entry

\* Whether slot s is the first Empty or Deleted slot of the array on the probe
\* path that starts at slot home.
first_reusable(slots, home, s) ==
    /\ slots[s] \in {Empty, Deleted}
    /\ \A t \in DOMAIN slots :
        steps(home, t) < steps(home, s) => slots[t][1] = "Occupied"

\* C26: a successful insert(k) writes k into the first slot that is Empty or
\* Deleted on the probe path hash(k) mod N, +1, +2, ... (wrapping), and
\* changes no other slot.  With the all-keys-collide hash, inserting 1, 2, 3,
\* 4 occupies slots 0, 1, 2, 3 in order; after remove(2) and remove(1),
\* insert(5) lands in slot 0, giving [Occupied(5), Deleted, Occupied(3),
\* Occupied(4)] and len 3.
C26_InsertionSlotRule ==
    /\ (call.op = "insert" /\ call.ret.bool) =>
        \E s \in DOMAIN map.entries :
            /\ changed(pre.map.entries, map.entries) = {s}
            /\ map.entries[s] = Occupied(call.key, call.val)
            /\ first_reusable(pre.map.entries, hash_key(pre.map, call.key) % N, s)
    /\ (call.op = "insert" /\ call.set_ret.bool) =>
        \E s \in DOMAIN set.arr :
            /\ changed(pre.set.arr, set.arr) = {s}
            /\ set.arr[s] = HashSet_Occupied(call.key)
            /\ first_reusable(pre.set.arr, hash_element(pre.set, call.key) % N, s)
    /\ pc = Cardinality(first_keys) + 1 =>
        /\ [i \in 0 .. 3 |-> tag_and_key(map.entries[i])]
               = [i \in 0 .. 3 |-> <<"Occupied", i + 1>>]
        /\ [i \in 0 .. 3 |-> set.arr[i]] = [i \in 0 .. 3 |-> HashSet_Occupied(i + 1)]
    /\ pc = Len(test_collisions) + 1 =>
        /\ call.ret.bool /\ call.set_ret.bool
        /\ tag_and_key(map.entries[0]) = <<"Occupied", 5>>
        /\ map.entries[1] = Deleted
        /\ tag_and_key(map.entries[2]) = <<"Occupied", 3>>
        /\ tag_and_key(map.entries[3]) = <<"Occupied", 4>>
        /\ map.len = 3
        /\ set.arr[0] = HashSet_Occupied(5)
        /\ set.arr[1] = Deleted
        /\ set.arr[2] = HashSet_Occupied(3)
        /\ set.arr[3] = HashSet_Occupied(4)
        /\ set.len = 3
        /\ \A i \in DOMAIN map.entries : i > 3 => (map.entries[i] = Empty /\ set.arr[i] = Empty)

\* C26's case: the end of test_collisions on the largest table, insert(5)
\* having succeeded.
C26_Witness ==
    /\ pc = Len(test_collisions) + 1
    /\ N = MaxTestN
    /\ call.op = "insert"
    /\ call.key = 5
    /\ call.ret.bool

\* Whether a slot may go from entry `before` to entry `after` in a call `op`:
\* it stays as it is, or Empty -> Occupied or Deleted -> Occupied in an
\* insert, or Occupied -> Deleted in a remove.
lifecycle_step(before, after, op) ==
    \/ after = before
    \/ before = Empty /\ after[1] = "Occupied" /\ op = "insert"
    \/ before = Deleted /\ after[1] = "Occupied" /\ op = "insert"
    \/ before[1] = "Occupied" /\ after = Deleted /\ op = "remove"

\* C27: along every execution each table slot only goes Empty -> Occupied
\* (insert), Occupied -> Deleted (remove) and Deleted -> Occupied (insert);
\* a slot that is not Empty is never Empty again, and no call turns Empty
\* directly into Deleted.  The same for the set.
C27_SlotLifecycle ==
    [][ /\ \A i \in DOMAIN map.entries :
            /\ lifecycle_step(map.entries[i], map'.entries[i], call'.op)
            /\ map.entries[i] # Empty => map'.entries[i] # Empty
            /\ map.entries[i] = Empty => map'.entries[i] # Deleted
        /\ \A i \in DOMAIN set.arr :
            /\ lifecycle_step(set.arr[i], set'.arr[i], call'.op)
            /\ set.arr[i] # Empty => set'.arr[i] # Empty
            /\ set.arr[i] = Empty => set'.arr[i] # Deleted ]_vars

\* C27's case: a slot of the largest table that was Deleted is Occupied again
\* by an insert, beside a slot still Deleted.
C27_Witness ==
    /\ call.op = "insert"
    /\ N = MaxN
    /\ \E i, j \in DOMAIN map.entries :
        /\ pre.map.entries[i] = Deleted
        /\ map.entries[i][1] = "Occupied"
        /\ map.entries[j] = Deleted

\* C28: the panic of probe_for_available_spot ("Unable to find free spot ...
\* with len < N") is unreachable: in every state reachable through insert and
\* remove, whenever len < N the availability probe returns a slot or a
\* duplicate before it wraps back to its start slot.  The same for the set.
C28_ProbePanicUnreachable ==
    /\ ~panicked
    /\ \A k \in Keys :
        /\ map.len < N => probe_for_available_spot(map, k) # Panic
        /\ set.len < N => HashSet_probe_for_available_spot(set, k) # Panic
    /\ call.op = "insert" =>
        /\ pre.map.len < N => probe_for_available_spot(pre.map, call.key) # Panic
        /\ pre.set.len < N => HashSet_probe_for_available_spot(pre.set, call.key) # Panic

\* C28's case: an insert into the largest table found its slot only at the
\* last step before the wrap, every other slot being Occupied by another key.
C28_Witness ==
    /\ call.op = "insert"
    /\ call.ret.bool
    /\ N = MaxN
    /\ pre.map.len = N - 1
    /\ \E s \in changed(pre.map.entries, map.entries) :
        steps(hash_key(map, call.key) % N, s) = N - 1

\* C30: for every slot s holding Occupied(k), no slot on the probe path from
\* hash(k) mod N up to s (wrapping) is Empty; so contains_key(k) is true for
\* every key stored in an Occupied slot.  The same for the set.
C30_ProbeChain ==
    /\ \A s \in occupied(map.entries) :
        LET k == map.entries[s][2]
            home == hash_key(map, k) % N
        IN  /\ \A t \in DOMAIN map.entries :
                steps(home, t) <= steps(home, s) => map.entries[t] # Empty
            /\ contains_key(map, k)
    /\ \A s \in occupied(set.arr) :
        LET k == set.arr[s][2]
            home == hash_element(set, k) % N
        IN  /\ \A t \in DOMAIN set.arr :
                steps(home, t) <= steps(home, s) => set.arr[t] # Empty
            /\ contains(set, k)

\* C30's case: a key of the largest table stored past its home slot, with a
\* Deleted slot on its probe path, after a remove.
C30_Witness ==
    /\ call.op = "remove"
    /\ N = MaxN
    /\ \E s \in occupied(map.entries), t \in DOMAIN map.entries :
        LET home == hash_key(map, map.entries[s][2]) % N
        IN  /\ steps(home, t) < steps(home, s)
            /\ map.entries[t] = Deleted
            /\ pre.map.entries[t][1] = "Occupied"

\* Whether a sequence of slots is a probe path: consecutive slots mod N from
\* the key's home slot, at most N of them.
probe_path(self, key, examined) ==
    /\ Len(examined) <= N
    /\ \A i \in DOMAIN examined :
        examined[i] = (hash_key(self, key) + i - 1) % N

\* Both probes look at no more than N consecutive slots from the home slot,
\* do not panic, and return what the last slot they looked at tells.
ProbesStopWithinN ==
    \A k \in Keys :
        LET a == probe_for_available_spot_examined(map, k)
            e == probe_for_existing_spot_examined(map, k)
        IN  /\ probe_path(map, k, a)
            /\ probe_path(map, k, e)
            /\ probe_for_available_spot(map, k) # Panic
            /\ a # << >> =>
                probe_for_available_spot(map, k)
                    = IF map.entries[a[Len(a)]][1] \in {"Empty", "Deleted"}
                      THEN Some(a[Len(a)]) ELSE None
            /\ e # << >> =>
                probe_for_existing_spot(map, k)
                    = IF map.entries[e[Len(e)]] # Empty
                         /\ map.entries[e[Len(e)]] # Deleted
                         /\ map.entries[e[Len(e)]][2] = k
                      THEN Some(e[Len(e)]) ELSE None

\* Whether the table has no Empty slot and does not hold the key.
no_empty_slot_and_absent(self, key) ==
    /\ \A i \in DOMAIN self.entries : self.entries[i] # Empty
    /\ absent(self.entries, key)

\* C29 as stated: both probe loops stop after looking at at most N slots in
\* every reachable state; in a table with no Empty slot left a lookup of an
\* absent key looks at each slot once, wraps to its start and returns None,
\* without looping forever or panicking.
C29_ProbesExamineEachSlotOnce ==
    /\ ProbesStopWithinN
    /\ \A k \in Keys : no_empty_slot_and_absent(map, k) =>
        /\ Len(probe_for_existing_spot_examined(map, k)) = N
        /\ get(map, k) = None
        /\ ~contains_key(map, k)

\* C29 amended: as C29, the lookup looking at each slot once when len > 0 and
\* at no slot at all when len = 0 (every slot Deleted, or N = 0).
C29_ProbesStopWithinN ==
    /\ ProbesStopWithinN
    /\ ~panicked
    /\ \A k \in Keys : no_empty_slot_and_absent(map, k) =>
        /\ map.len > 0 => Len(probe_for_existing_spot_examined(map, k)) = N
        /\ map.len = 0 => probe_for_existing_spot_examined(map, k) = << >>
        /\ get(map, k) = None
        /\ ~contains_key(map, k)
    /\ (call.op \in {"get", "contains_key", "remove"}
            /\ no_empty_slot_and_absent(pre.map, call.key)) =>
        call.ret = (IF call.op = "contains_key" THEN ret_bool(FALSE) ELSE ret_option(None))

\* C29's case: get of an absent key on the largest table, no slot Empty, one
\* Deleted and one Occupied: the probe goes all the way round.
C29_Witness ==
    /\ call.op = "get"
    /\ N = MaxN
    /\ no_empty_slot_and_absent(pre.map, call.key)
    /\ pre.map.len > 0
    /\ \E i \in DOMAIN pre.map.entries : pre.map.entries[i] = Deleted
    /\ Len(probe_for_existing_spot_examined(pre.map, call.key)) = N
    /\ call.ret = ret_option(None)

\* ------------------------------------------------------------------ C31
\* The success or failure a returned value reports: the bool itself, and for
\* an Option whether it is Some.
succeeded(r) == [bool |-> r.bool, some |-> is_some(r.option), usize |-> r.usize]

\* C31: given the same hasher, the same N and the same insert, remove,
\* contains and get calls on the same keys, the set and the map have after
\* every call the same len, the same tag and key in every slot, and have
\* returned the same success or failure.
C31_SetAndMapAgree ==
    /\ set.hasher = map.build_hasher
    /\ HashSet_len(set) = len(map)
    /\ DOMAIN set.arr = DOMAIN map.entries
    /\ \A i \in DOMAIN map.entries : set.arr[i] = tag_and_key(map.entries[i])
    /\ succeeded(call.set_ret) = succeeded(call.ret)
    /\ \A k \in Keys :
        /\ hash_element(set, k) = hash_key(map, k)
        /\ HashSet_probe_for_available_spot(set, k) = probe_for_available_spot(map, k)
        /\ HashSet_probe_for_existing_spot(set, k) = probe_for_existing_spot(map, k)

\* C31's case: on the largest table an insert succeeded in both, into a slot
\* that a remove had left Deleted in both and that is not the key's home slot.
C31_Witness ==
    /\ N = MaxN
    /\ call.op = "insert"
    /\ call.ret = ret_bool(TRUE)
    /\ call.set_ret = ret_bool(TRUE)
    /\ \E i \in DOMAIN set.arr :
        /\ pre.set.arr[i] = Deleted
        /\ pre.map.entries[i] = Deleted
        /\ set.arr[i] = HashSet_Occupied(call.key)
        /\ map.entries[i] = Occupied(call.key, call.val)
        /\ hash_element(set, call.key) % N # i

\* ------------------------------------------------------------------ C32
\* The number of live elements of a list whose value is at most v.
count_at_most(self, v) ==
    Cardinality({j \in live(self) : self.backing[j][1][2] <= v})

\* Among equal values the handles increase with the position.
equal_values_in_arrival_order(self) ==
    \A j1, j2 \in live(self) :
        (j1 < j2 /\ self.backing[j1][1][2] = self.backing[j2][1][2])
            => self.backing[j1][1][1] < self.backing[j2][1][1]

\* C32: push(v) on a list with len < N writes v at position spot = the number
\* of live elements with value <= v; every element at a position >= spot has
\* moved one place right and its indices entry has grown by 1; the elements
\* before spot and their indices entries are as they were; so among equal
\* values handles increase with position after any pushes and pops.
C32_PushPlacement ==
    /\ (scall.op = "push" /\ spre.slist.len < N) =>
        LET before == spre.slist
            spot == count_at_most(before, scall.elem)
        IN  /\ scall.panic = NoPanic
            /\ search_for_new_spot(before, scall.elem, 0, before.len)
                   = [ret |-> spot, panic |-> NoPanic]
            /\ slist.len = before.len + 1
            /\ slist.backing[spot] = Some(<<before.len, scall.elem>>)
            /\ slist.indices[before.len] = Some(spot)
            /\ \A j \in live(before) :
                LET h == before.backing[j][1][1]
                IN  IF j >= spot
                    THEN /\ slist.backing[j + 1] = before.backing[j]
                         /\ slist.indices[h] = Some(before.indices[h][1] + 1)
                    ELSE /\ slist.backing[j] = before.backing[j]
                         /\ slist.indices[h] = before.indices[h]
            /\ \A j \in DOMAIN slist.backing : j > before.len =>
                /\ slist.backing[j] = before.backing[j]
                /\ slist.indices[j] = before.indices[j]
    /\ equal_values_in_arrival_order(slist)

\* C32's case: a push of a value that the list already holds, with a larger
\* value behind it: the new element goes after its equal and the larger one
\* moves right.
C32_Witness ==
    /\ scall.op = "push"
    /\ scall.panic = NoPanic
    /\ \E j \in live(slist) :
        /\ j >= 1
        /\ j + 1 \in live(slist)
        /\ slist.backing[j] = Some(<<spre.slist.len, scall.elem>>)
        /\ slist.backing[j - 1][1][2] = scall.elem
        /\ slist.backing[j + 1][1][2] > scall.elem
        /\ slist.backing[j + 1] = spre.slist.backing[j]

\* ------------------------------------------------------------------ C33
\* The first entries of an array of Options, as a sequence of their contents.
prefix(arr, n) == [i \in 1 .. n |-> arr[i - 1][1]]

\* Whether every entry of an array from position n on is None.
none_from(arr, n) == \A i \in DOMAIN arr : i >= n => arr[i] = None

\* C33: pushing 1, 3, 2, 0 onto an empty list assigns the handles 0, 1, 2, 3;
\* the backing array is then [(3,0), (0,1), (2,2), (1,3)] and indices is
\* [1, 3, 2, 0]; the pops that follow return 0, 2, 3, 1 and then None, and
\* indices after the first pop is [0, 2, 1].
C33_WorkedTrace ==
    /\ pc \in 2 .. pushes + 1 =>
        /\ scall.panic = NoPanic
        /\ \E j \in live(slist) : slist.backing[j] = Some(<<pc - 2, test_pop[pc - 1][2]>>)
    /\ pc = pushes + 1 =>
        /\ slist.len = 4
        /\ prefix(slist.backing, 4) = << <<3, 0>>, <<0, 1>>, <<2, 2>>, <<1, 3>> >>
        /\ prefix(slist.indices, 4) = << 1, 3, 2, 0 >>
        /\ none_from(slist.backing, 4)
        /\ none_from(slist.indices, 4)
    /\ pc = pushes + 2 =>
        /\ scall.ret = Some(0)
        /\ slist.len = 3
        /\ prefix(slist.indices, 3) = << 0, 2, 1 >>
        /\ none_from(slist.indices, 3)
    /\ pc = pushes + 3 => scall.ret = Some(2)
    /\ pc = pushes + 4 => scall.ret = Some(3)
    /\ pc = pushes + 5 => scall.ret = Some(1)
    /\ pc = pushes + 6 => (scall.ret = None /\ scall.panic = NoPanic /\ slist.len = 0)

\* C33's case: the test has made all its calls, the last pop on the list it
\* had emptied.
C33_Witness ==
    /\ pc = Len(test_pop) + 1
    /\ scall.op = "pop"
    /\ spre.slist.len = 0
    /\ lifo = << >>

\* ------------------------------------------------------------------ C34
\* C34: after any sequence of push and pop calls, 0 <= len <= N; the handles
\* stored in backing[0..len) are exactly 0 .. len - 1, none of them twice;
\* backing[j] and indices[j] are None for every j >= len, pop having cleared
\* the tail slot it vacated in both arrays.
C34_Occupancy ==
    /\ 0 <= slist.len
    /\ slist.len <= N
    /\ \A j \in live(slist) : is_some(slist.backing[j])
    /\ {slist.backing[j][1][1] : j \in live(slist)} = live(slist)
    /\ \A j1, j2 \in live(slist) :
        slist.backing[j1][1][1] = slist.backing[j2][1][1] => j1 = j2
    /\ none_from(slist.backing, slist.len)
    /\ none_from(slist.indices, slist.len)
    /\ (scall.op = "pop" /\ spre.slist.len > 0) =>
        /\ slist.len = spre.slist.len - 1
        /\ slist.backing[slist.len] = None
        /\ slist.indices[slist.len] = None

\* C34's case: a pop from a full list of three or more whose last handle was
\* not in the last slot, so the tail slot was vacated by the shift.
C34_Witness ==
    /\ scall.op = "pop"
    /\ scall.panic = NoPanic
    /\ spre.slist.len = N
    /\ N >= 3
    /\ back_slot(spre.slist) < N - 1
    /\ is_some(spre.slist.backing[N - 1])
    /\ slist.backing[N - 1] = None
    /\ slist.indices[N - 1] = None

\* ------------------------------------------------------------------ C35
\* C35: in every reachable state with len < N and for every value v, push(v)
\* followed by pop() returns Some(v) and leaves backing, indices and len as
\* they were before the push.
C35_PushPopRoundTrip ==
    \A v \in Elems : slist.len < N =>
        LET pushed == SearchableList_push(slist, v)
            popped == SearchableList_pop(pushed.self)
        IN  /\ pushed.panic = NoPanic
            /\ pushed.self # slist
            /\ popped.panic = NoPanic
            /\ popped.ret = Some(v)
            /\ popped.self.backing = slist.backing
            /\ popped.self.indices = slist.indices
            /\ popped.self.len = slist.len

\* C35's case: a pop that undid the push before it, of a value that went into
\* the middle of a list of two or more, so both calls shifted elements.
C35_Witness ==
    /\ scall.op = "pop"
    /\ scall.panic = NoPanic
    /\ slist.len >= 2
    /\ slist.len < N
    /\ is_some(scall.ret)
    /\ scall.ret[1] \in Elems
    /\ spre.slist = SearchableList_push(slist, scall.ret[1]).self
    /\ back_slot(spre.slist) \in 1 .. slist.len - 1

\* ------------------------------------------------------------------ C36
\* The messages of the panics that guard the bookkeeping of push and pop.
internal_panics ==
    { "Unexpected diff of 0 when searching for element spot",
      "Reached invalid state during binary search, expected to find spot after index {} but didn't",
      "Unexpected None at index {} of backing array for searchable list with len {}",
      "Unexpected None at index {} in backing array with len {}",
      "Mismatched j's, j = {}, j2 = {}",
      "Mismatched indices, backing array contains {} but expected {}",
      "Unexpected None at index {} of SList backing arr, with len = {}",
      "Unexpected None at index {} of SList indices arr, with len = {}",
      OutOfBounds, SubtractOverflow }

\* The binary search of push(v) on self: its ranges lie within 0 .. len, each
\* narrower than the one before, the last of width 0 or 1 and giving the
\* spot; the search and the push end without a panic.
search_is_sound(self, v) ==
    LET ranges == search_for_new_spot_ranges(self, v, 0, self.len)
        last == ranges[Len(ranges)]
    IN  /\ \A i \in DOMAIN ranges :
            /\ 0 <= ranges[i][1]
            /\ ranges[i][1] <= ranges[i][2]
            /\ ranges[i][2] <= self.len
        /\ \A i \in 1 .. Len(ranges) - 1 :
            ranges[i + 1][2] - ranges[i + 1][1] < ranges[i][2] - ranges[i][1]
        /\ Len(ranges) <= self.len + 1
        /\ last[2] - last[1] <= 1
        /\ search_for_new_spot(self, v, 0, self.len)
               = search_for_new_spot(self, v, last[1], last[2])
        /\ search_for_new_spot(self, v, 0, self.len).panic = NoPanic
        /\ SearchableList_push(self, v).panic = NoPanic

\* No push with len < N and no pop has ended in a panic.
no_internal_panic ==
    /\ SearchableList_pop(slist).panic = NoPanic
    /\ (scall.op = "pop" \/ (scall.op = "push" /\ spre.slist.len < N)) =>
        scall.panic = NoPanic
    /\ scall.op \in {"push", "pop"} => scall.panic \notin internal_panics

\* C36 as stated: for any sequence of push (with len < N) and pop calls the
\* binary search for the new spot stays within 0 <= start_j < end_j <= len,
\* its width shrinking at every call, and ends; none of the panics that guard
\* the bookkeeping of push and pop is reached.
C36_SearchRangeNeverEmpty ==
    /\ no_internal_panic
    /\ \A v \in Elems : slist.len < N =>
        /\ search_is_sound(slist, v)
        /\ \A i \in DOMAIN search_for_new_spot_ranges(slist, v, 0, slist.len) :
            LET r == search_for_new_spot_ranges(slist, v, 0, slist.len)[i]
            IN  r[1] < r[2]

\* C36 amended: as C36, the range being 0 <= start_j <= end_j <= len, empty
\* (start_j = end_j = 0) exactly when the list is empty.
C36_NoInternalPanic ==
    /\ no_internal_panic
    /\ \A v \in Elems : slist.len < N =>
        /\ search_is_sound(slist, v)
        /\ \A i \in DOMAIN search_for_new_spot_ranges(slist, v, 0, slist.len) :
            LET r == search_for_new_spot_ranges(slist, v, 0, slist.len)[i]
            IN  (r[1] = r[2]) <=> (slist.len = 0)

\* C36's case: a push onto a list of three or more whose search took three
\* calls or more and put the element in the middle.
C36_Witness ==
    /\ scall.op = "push"
    /\ scall.panic = NoPanic
    /\ spre.slist.len >= 3
    /\ Len(search_for_new_spot_ranges(spre.slist, scall.elem, 0, spre.slist.len)) >= 3
    /\ back_slot(slist) \in 1 .. spre.slist.len - 1

\* ------------------------------------------------------------------ C37
\* A slice in the opposite order.
reversed(bytes) == [i \in DOMAIN bytes |-> bytes[Len(bytes) + 1 - i]]

\* C37: for a hasher built with seed SEED and fed any sequence of write
\* calls, finish() is (SEED + the sum of all bytes written) modulo the number
\* of values of the accumulator; the digest is the same for the same bytes on
\* every call, whatever the order of the bytes and however they are split
\* across write calls.
C37_DigestIsSeedPlusByteSum ==
    /\ finish(default_hasher) = (builder.SEED + sum_fed(fed, MaxByte)) % Modulus
    /\ hcall.op = "finish" =>
        hcall.ret = (builder.SEED + sum_fed(fed, MaxByte)) % Modulus
    /\ finish(default_hasher) \in 0 .. Modulus - 1
    /\ \A bytes \in Slices :
        /\ finish(write(default_hasher, bytes)) = (finish(default_hasher) + sum(bytes)) % Modulus
        /\ write(default_hasher, reversed(bytes)) = write(default_hasher, bytes)
        /\ \A i \in 0 .. Len(bytes) :
            write(write(default_hasher, SubSeq(bytes, 1, i)), SubSeq(bytes, i + 1, Len(bytes)))
                = write(default_hasher, bytes)

\* C37's case: finish called after as many bytes as may be written, their
\* sum having taken the accumulator past its largest value and round.
C37_Witness ==
    /\ hcall.op = "finish"
    /\ count_fed(fed, MaxByte) = MaxFed
    /\ builder.SEED + sum_fed(fed, MaxByte) >= Modulus
    /\ hcall.ret < builder.SEED

\* ------------------------------------------------------------------ C38
\* C38: in every reachable Queue state, queue[i], through Index and through
\* IndexMut, ends in a panic for every i >= len, i >= N included, and never
\* gives a live element for such an i.
C38_QueueIndexBoundedByLen ==
    which = "Queue" =>
        /\ \A i \in 0 .. 2 * MaxCollN : i >= Queue_len(queue) =>
            /\ Queue_index(queue, i).panic # NoPanic
            /\ Queue_index(queue, i).ret = None
            /\ Queue_index_mut(queue, i).panic # NoPanic
            /\ Queue_index_mut(queue, i).ret = None
        /\ (ccall.op = "index" /\ ccall.index >= Queue_len(cpre.queue)) =>
            (ccall.panic # NoPanic /\ ccall.ret = None)

\* ------------------------------------------------------------------ C39
\* Whether after is before without its element at position i: one element
\* fewer, the others in their order in arr[0..len), every slot >= len None.
removed_at(before, after, i) ==
    /\ after.len = before.len - 1
    /\ \A j \in 0 .. after.len - 1 :
        after.arr[j] = before.arr[IF j < i THEN j ELSE j + 1]
    /\ none_from(after.arr, after.len)

\* C39: remove(i) with i < len returns element i; remove_by(f) removes and
\* returns one element, the last (highest-index) one satisfying f, or returns
\* None and leaves the list as it was when no element satisfies f; on
\* success len is one less, the remaining elements keep their order in
\* arr[0..len) and every slot >= len is None.
C39_ListRemoval ==
    which = "List" =>
        /\ none_from(list.arr, list.len)
        /\ prefix(list.arr, list.len) = held
        /\ (ccall.op = "remove" /\ ccall.index < cpre.list.len) =>
            /\ ccall.panic = NoPanic
            /\ ccall.ret = cpre.list.arr[ccall.index]
            /\ ccall.ret = ccall.ref_ret
            /\ removed_at(cpre.list, list, ccall.index)
        /\ ccall.op = "remove_by" =>
            LET satisfying == {i \in 0 .. cpre.list.len - 1 :
                                  call_f(ccall.elem, cpre.list.arr[i][1])}
            IN  /\ ccall.panic = NoPanic
                /\ ccall.ret = ccall.ref_ret
                /\ satisfying = {} => (ccall.ret = None /\ list = cpre.list)
                /\ satisfying # {} =>
                    \E i \in satisfying :
                        /\ \A k \in satisfying : k <= i
                        /\ ccall.ret = cpre.list.arr[i]
                        /\ removed_at(cpre.list, list, i)

\* C39's case: remove_by on a full list of three or more whose first two
\* elements differ and both satisfy f while the last does not: the second is
\* removed and the last moves down.
C39_Witness ==
    /\ which = "List"
    /\ ccall.op = "remove_by"
    /\ cpre.list.len = N
    /\ N >= 3
    /\ call_f(ccall.elem, cpre.list.arr[0][1])
    /\ call_f(ccall.elem, cpre.list.arr[1][1])
    /\ cpre.list.arr[0] # cpre.list.arr[1]
    /\ \A i \in 2 .. N - 1 : ~call_f(ccall.elem, cpre.list.arr[i][1])
    /\ ccall.ret = cpre.list.arr[1]
    /\ list.arr[1] = cpre.list.arr[2]

====
